---- MODULE Spec2Model ----
(***************************************************************************)
(* Model of the Dropbox API client of xiaocam_cpy (src/dropbox_cpy.py):    *)
(* the credentials kept by DropboxAPI, the token validity check and        *)
(* refresh, the response classifier raise_dropbox_error_for_resp and the   *)
(* retry loop post_request_json_string_with_retry behind every facade      *)
(* call.  One action is taken per network exchange: a facade call runs up  *)
(* to its first POST, and each response is handled up to the next POST or  *)
(* to the end of the call.                                                 *)
(***************************************************************************)
EXTENDS Integers, Sequences, FiniteSets, TLC

VARIABLES
    pc,                              \* "new", "ctor_failed", "idle", "token_wait", "target_wait", "done"
    oauth2_access_token,             \* self._oauth2_access_token ("None" when unset)
    oauth2_refresh_token,            \* self._oauth2_refresh_token is set
    oauth2_access_token_expiration,  \* self._oauth2_access_token_expiration (NoneVal when None)
    app_key,                         \* self._app_key is set
    app_secret,                      \* self._app_secret is set
    max_retries_on_error,            \* self._max_retries_on_error
    max_retries_on_rate_limit,       \* self._max_retries_on_rate_limit (NoneVal when None)
    now,                             \* time.mktime(RTC().datetime), epoch seconds
    calls,                           \* facade calls made on the client so far
    op,                              \* the facade operation in progress
    writemode,                       \* files_upload's writemode argument
    path,                            \* files_upload's path argument
    api_arg,                         \* the Dropbox-API-Arg header of the call
    second,                          \* a second call running on the same client
    overlapped,                      \* history: a call began while the other ran
    cam,                             \* the locals of cam_main's capture loop
    attempt,                         \* local of post_request_json_string_with_retry
    rate_limit_errors,               \* local of post_request_json_string_with_retry
    has_refreshed,                   \* local of post_request_json_string_with_retry
    refresh_caller,                  \* who called refresh_access_token: "check" or "loop"
    callStart,                       \* the credentials and the clock when the facade call began
    loopRefreshCalls,                \* calls of refresh_access_token from the loop in this call
    tokenPosts,                      \* POSTs to oauth2/token in this facade call
    targetPosts,                     \* POSTs to the target route in this facade call
    sleeps,                          \* time.sleep calls in this facade call
    lastSleep,                       \* duration of the last time.sleep, [num, den] seconds
    lastReq,                         \* the last request handed to session.post
    firstAuth,                       \* Authorization value of the first target POST of the call
    lastRes,                         \* the last response received
    printed,                         \* the last values printed by refresh_access_token
    custom_headers,                  \* self._headers
    user_agent,                      \* self._user_agent
    outcome,                         \* how the last facade call ended
    ctorArgs                         \* the arguments __init__ was called with

vars == << pc, oauth2_access_token, oauth2_refresh_token,
           oauth2_access_token_expiration, app_key, app_secret,
           max_retries_on_error, max_retries_on_rate_limit, now, calls, op, writemode, path, api_arg,
           attempt, rate_limit_errors, has_refreshed, refresh_caller, callStart,
           loopRefreshCalls, tokenPosts, targetPosts, sleeps, lastSleep,
           lastReq, firstAuth, lastRes, printed, custom_headers, user_agent,
           outcome, ctorArgs, second, overlapped, cam >>

secondVars == << second, overlapped >>
camVars == << cam >>

credVars == << oauth2_access_token, oauth2_refresh_token,
               oauth2_access_token_expiration, app_key, app_secret >>
cfgVars == << max_retries_on_error, max_retries_on_rate_limit, custom_headers,
            user_agent, ctorArgs >>

(***************************************************************************)
(* Bounds of the model                                                     *)
(***************************************************************************)
MaxRetriesOnError == 2      \* largest max_retries_on_error constructed
MaxRetriesOnRateLimit == 1  \* largest finite max_retries_on_rate_limit constructed
MaxRateLimitErrors == 3     \* cap on 429 responses in a call when the ceiling is None
TimeSpan == 6               \* seconds of clock modelled after the initial instant
RandDen == 2                \* random() takes the values k / RandDen, k < RandDen
MaxCalls == 2               \* facade calls made on one client
MaxElapsed == 1             \* seconds that pass between two facade calls
ListSize == 6               \* camDirConfig['list_size']: images taken before the loop stops
MaxDays == 3                \* dates the capture loop runs through

(***************************************************************************)
(* Program constants                                                       *)
(***************************************************************************)
TOKEN_EXPIRATION_BUFFER == 300
HTTP_STATUS_INVALID_PATH_ROOT == 422
DEFAULT_BACKOFF == 5
Now0 == 1000
NoneVal == -1
MissingVal == -3   \* a member that the JSON object does not have
BadVal == -2

API_HOST == "api.dropboxapi.com"
API_CONTENT_HOST == "content.dropboxapi.com"
DB_TOKEN_ROUTE == "oauth2/token"
DB_USERS_GCA_ROUTE == "users/get_current_account"
DB_LIST_ROUTE == "files/list_folder"
DB_GETMETADATA_ROUTE == "files/get_metadata"
DB_CREATEFOLDER_ROUTE == "files/create_folder_v2"
DB_UPLOAD_ROUTE == "files/upload"
API_VERSION == "2"
USER_AGENT == "UnofficialDropboxCircuitPythonSDKv0"

MaxTime == Now0 + TimeSpan

(***************************************************************************)
(* Python values                                                           *)
(***************************************************************************)
\* bool(x) of a token string: None and "" are false
TokenSet(t) == t # "None"

\* bool(x) of an expiration: None and 0 are false
ExpirationSet(e) == e # NoneVal /\ e # 0

RECURSIVE Pow2(_)
Pow2(k) == IF k <= 0 THEN 1 ELSE 2 * Pow2(k - 1)

Digits == << "0", "1", "2", "3", "4", "5", "6", "7", "8", "9" >>
IsDigit(c) == \E i \in 1..10 : Digits[i] = c
DigitVal(c) == (CHOOSE i \in 1..10 : Digits[i] = c) - 1

RECURSIVE DigitsToInt(_, _)
DigitsToInt(s, acc) ==
    IF s = << >> THEN acc ELSE DigitsToInt(Tail(s), 10 * acc + DigitVal(Head(s)))

\* int(text) of a header value given as a sequence of characters:
\* [ok |-> FALSE] stands for ValueError
ParseInt(s) ==
    LET neg == s # << >> /\ Head(s) = "-"
        pos == s # << >> /\ Head(s) = "+"
        ds == IF neg \/ pos THEN Tail(s) ELSE s
    IN  IF ds = << >> \/ \E i \in 1..Len(ds) : ~IsDigit(ds[i])
        THEN [ok |-> FALSE, val |-> 0]
        ELSE [ok |-> TRUE,
              val |-> IF neg THEN 0 - DigitsToInt(ds, 0) ELSE DigitsToInt(ds, 0)]

(***************************************************************************)
(* json.dumps and json.loads on the texts the client builds.  A text is a  *)
(* sequence of characters; "eacute" stands for one character outside ASCII.*)
(***************************************************************************)
QUOTE == "\""
BACKSLASH == "\\"
NonAscii == "eacute"

\* json.dumps writing the double quote as it is
EscapeChar_NoQuote(c, ensure_ascii) ==
    IF c = BACKSLASH THEN << BACKSLASH, BACKSLASH >>
    ELSE IF c = NonAscii /\ ensure_ascii THEN << BACKSLASH, "u", "0", "0", "e", "9" >>
    ELSE << c >>

\* one character of a string as json.dumps writes it; CPython escapes the
\* characters outside ASCII (ensure_ascii), CircuitPython writes them as is
EscapeChar(c, ensure_ascii) ==
    IF c = QUOTE THEN << BACKSLASH, QUOTE >>
    ELSE IF c = BACKSLASH THEN << BACKSLASH, BACKSLASH >>
    ELSE IF c = NonAscii /\ ensure_ascii THEN << BACKSLASH, "u", "0", "0", "e", "9" >>
    ELSE << c >>

RECURSIVE EscapeStr(_, _)
EscapeStr(cs, ensure_ascii) ==
    IF cs = << >> THEN << >>
    ELSE EscapeChar(Head(cs), ensure_ascii) \o EscapeStr(Tail(cs), ensure_ascii)

DumpsStr(cs, ensure_ascii) == << QUOTE >> \o EscapeStr(cs, ensure_ascii) \o << QUOTE >>
DumpsBool(b) == IF b THEN << "t", "r", "u", "e" >> ELSE << "f", "a", "l", "s", "e" >>

\* a member of a dict: its key and its value, a str or a bool
StrMember(k, cs) == [key |-> k, kind |-> "str", str |-> cs, bool |-> FALSE]
BoolMember(k, b) == [key |-> k, kind |-> "bool", str |-> << >>, bool |-> b]

DumpsMember(m, ensure_ascii) ==
    DumpsStr(m.key, ensure_ascii) \o << ":", " " >>
        \o (IF m.kind = "str" THEN DumpsStr(m.str, ensure_ascii) ELSE DumpsBool(m.bool))

RECURSIVE DumpsMembers(_, _)
DumpsMembers(ms, ensure_ascii) ==
    IF ms = << >> THEN << >>
    ELSE IF Len(ms) = 1 THEN DumpsMember(ms[1], ensure_ascii)
    ELSE DumpsMember(ms[1], ensure_ascii) \o << ",", " " >>
             \o DumpsMembers(Tail(ms), ensure_ascii)

\* json.dumps of a dict given as the sequence of its members
dumps(ms, ensure_ascii) == << "{" >> \o DumpsMembers(ms, ensure_ascii) \o << "}" >>

\* json.loads: the parser reads the text from position i
At(t, i) == IF i >= 1 /\ i <= Len(t) THEN t[i] ELSE "EOF"
StartsWith(t, i, w) ==
    /\ i + Len(w) - 1 <= Len(t)
    /\ \A k \in 1..Len(w) : t[i + k - 1] = w[k]

RECURSIVE SkipSpace(_, _)
SkipSpace(t, i) == IF At(t, i) = " " THEN SkipSpace(t, i + 1) ELSE i

Parsed(o, v, n) == [ok |-> o, val |-> v, next |-> n]

\* the characters of a string literal whose opening quote is before i
RECURSIVE ReadStr(_, _, _)
ReadStr(t, i, acc) ==
    LET c == At(t, i)
    IN  IF c = "EOF" THEN Parsed(FALSE, acc, i)
        ELSE IF c = QUOTE THEN Parsed(TRUE, acc, i + 1)
        ELSE IF c = BACKSLASH
             THEN IF At(t, i + 1) \in {QUOTE, BACKSLASH}
                  THEN ReadStr(t, i + 2, Append(acc, At(t, i + 1)))
                  ELSE IF StartsWith(t, i + 1, << "u", "0", "0", "e", "9" >>)
                  THEN ReadStr(t, i + 6, Append(acc, NonAscii))
                  ELSE Parsed(FALSE, acc, i)
        ELSE ReadStr(t, i + 1, Append(acc, c))

\* a value: a string literal, true or false, as a member with key k
ReadValue(t, i, k) ==
    IF At(t, i) = QUOTE
    THEN LET r == ReadStr(t, i + 1, << >>)
         IN  Parsed(r.ok, StrMember(k, r.val), r.next)
    ELSE IF StartsWith(t, i, DumpsBool(TRUE))
         THEN Parsed(TRUE, BoolMember(k, TRUE), i + 4)
    ELSE IF StartsWith(t, i, DumpsBool(FALSE))
         THEN Parsed(TRUE, BoolMember(k, FALSE), i + 5)
    ELSE Parsed(FALSE, BoolMember(k, FALSE), i)

\* the members of an object from position i on, the opening brace read
RECURSIVE ReadMembers(_, _, _)
ReadMembers(t, i, acc) ==
    LET j == SkipSpace(t, i)
    IN  IF At(t, j) # QUOTE THEN Parsed(FALSE, acc, j)
        ELSE LET k == ReadStr(t, j + 1, << >>)
                 c == SkipSpace(t, k.next)
             IN  IF ~k.ok \/ At(t, c) # ":" THEN Parsed(FALSE, acc, c)
                 ELSE LET v == ReadValue(t, SkipSpace(t, c + 1), k.val)
                          e == SkipSpace(t, v.next)
                          ms == {m \in acc : m.key # k.val} \cup {v.val}
                      IN  IF ~v.ok THEN Parsed(FALSE, acc, e)
                          ELSE IF At(t, e) = "," THEN ReadMembers(t, e + 1, ms)
                          ELSE IF At(t, e) = "}" THEN Parsed(TRUE, ms, e + 1)
                          ELSE Parsed(FALSE, acc, e)

\* json.loads of an object: the set of its members, ok FALSE for ValueError
loads(t) ==
    LET i == SkipSpace(t, 1)
    IN  IF At(t, i) # "{" THEN Parsed(FALSE, {}, i)
        ELSE IF At(t, SkipSpace(t, i + 1)) = "}"
             THEN Parsed(SkipSpace(t, SkipSpace(t, i + 1) + 1) > Len(t), {},
                         SkipSpace(t, i + 1) + 1)
        ELSE LET r == ReadMembers(t, i + 1, {})
             IN  Parsed(r.ok /\ SkipSpace(t, r.next) > Len(t), r.val, r.next)

(***************************************************************************)
(* Responses of the transport.  A body is what res.json() decodes:         *)
(*   json               the body parses as a JSON object                   *)
(*   error              the 'error' member: "absent", a string, or "obj"   *)
(*   error_tag          error['.tag'] when error is an object              *)
(*   error_retry_after  error['retry_after'] when error is an object:      *)
(*                      MissingVal when absent, NoneVal when null          *)
(*   tag                the '.tag' member                                  *)
(*   access_token       the 'access_token' member ("None" when absent)     *)
(*   expires_in         the 'expires_in' member (NoneVal when absent,      *)
(*                      BadVal when int() does not accept it)              *)
(***************************************************************************)
Body(j, e, et, era, t, at, ei) ==
    [json |-> j, error |-> e, error_tag |-> et, error_retry_after |-> era,
     tag |-> t, access_token |-> at, expires_in |-> ei]

NotJson == Body(FALSE, "absent", "absent", MissingVal, "absent", "None", NoneVal)
EmptyObj == Body(TRUE, "absent", "absent", MissingVal, "absent", "None", NoneVal)
ErrStr(e) == Body(TRUE, e, "absent", MissingVal, "absent", "None", NoneVal)
ErrObj(et, era) == Body(TRUE, "obj", et, era, "absent", "None", NoneVal)
Meta(t) == Body(TRUE, "absent", "absent", MissingVal, t, "None", NoneVal)
TokenBody(at, ei) == Body(TRUE, "absent", "absent", MissingVal, "absent", at, ei)

NoHeader == [present |-> FALSE, text |-> << >>]
Header(s) == [present |-> TRUE, text |-> s]

JSON == "application/json"
TEXT == "text/plain"

Resp(st, ct, rid, ra, b) ==
    [status_code |-> st, content_type |-> ct, request_id |-> rid,
     retry_after |-> ra, body |-> b]

RequestIds == {"None", "rid1"}

\* Responses the server side can give to a target route
TargetResponses ==
    {Resp(200, JSON, "rid1", NoHeader, b) :
        b \in {Meta("file"), Meta("deleted"), EmptyObj}}
    \cup {Resp(200, TEXT, "rid1", NoHeader, NotJson),
          Resp(200, JSON, "None", NoHeader, NotJson),
          Resp(204, JSON, "None", NoHeader, Meta("folder"))}
    \cup {Resp(500, TEXT, "None", NoHeader, NotJson),
          Resp(503, TEXT, "rid1", NoHeader, NotJson),
          Resp(302, TEXT, "rid1", NoHeader, NotJson),
          Resp(101, TEXT, "None", NoHeader, NotJson),
          Resp(418, JSON, "rid1", NoHeader, EmptyObj)}
    \cup {Resp(400, JSON, "rid1", NoHeader, b) :
        b \in {ErrStr("invalid_grant"), ErrStr("other"), EmptyObj}}
    \cup {Resp(400, TEXT, "rid1", NoHeader, NotJson)}
    \cup {Resp(401, JSON, "rid1", NoHeader, b) :
        b \in {ErrObj("expired_access_token", MissingVal),
               ErrObj("invalid_access_token", MissingVal),
               ErrObj("absent", MissingVal), ErrStr("other"), EmptyObj}}
    \cup {Resp(401, TEXT, "rid1", NoHeader, NotJson)}
    \cup {Resp(st, JSON, "rid1", NoHeader, ErrObj("path", MissingVal)) :
        st \in {403, 404, 409}}
    \cup {Resp(404, TEXT, "None", NoHeader, NotJson)}
    \cup {Resp(HTTP_STATUS_INVALID_PATH_ROOT, JSON, "rid1", NoHeader, b) :
        b \in {ErrObj("invalid_root", MissingVal), EmptyObj}}
    \cup {Resp(429, JSON, "rid1", NoHeader, b) :
        b \in {ErrObj("too_many_requests", 1), ErrObj("too_many_requests", NoneVal),
               ErrObj("too_many_requests", MissingVal),
               EmptyObj}}
    \cup {Resp(429, TEXT, "rid1", h, NotJson) :
        h \in {NoHeader, Header(<< "3" >>), Header(<< "-", "3" >>),
               Header(<< "x" >>)}}

\* The answers that matter to the token life cycle and to path_exists
CoreTargetResponses ==
    {Resp(200, JSON, "rid1", NoHeader, b) :
        b \in {Meta("file"), Meta("folder"), Meta("deleted"), EmptyObj}}
    \cup {Resp(409, JSON, "rid1", NoHeader, ErrObj("path", MissingVal)),
          Resp(404, TEXT, "None", NoHeader, NotJson),
          Resp(401, JSON, "rid1", NoHeader, ErrObj("expired_access_token", MissingVal)),
          Resp(401, JSON, "rid1", NoHeader, ErrObj("invalid_access_token", MissingVal)),
          Resp(503, TEXT, "rid1", NoHeader, NotJson),
          Resp(429, TEXT, "rid1", Header(<< "3" >>), NotJson)}

AccessTokens == {"A1", "A2"}
ExpiresIn == {300, 400}

\* Responses the server side can give to oauth2/token
TokenResponses ==
    {Resp(200, JSON, "rid1", NoHeader, TokenBody(at, ei)) :
        at \in AccessTokens, ei \in ExpiresIn}
    \cup {Resp(200, JSON, "rid1", NoHeader, b) :
        b \in {TokenBody("A1", NoneVal), TokenBody("A1", BadVal),
               TokenBody("None", 300), ErrStr("invalid_grant"), NotJson}}
    \cup {Resp(400, JSON, "rid1", NoHeader, b) :
        b \in {ErrStr("invalid_grant"), ErrStr("other")}}
    \cup {Resp(st, TEXT, "rid1", NoHeader, NotJson) : st \in {401, 404, 500}}
    \cup {Resp(429, TEXT, "rid1", Header(<< "3" >>), NotJson),
          Resp(401, JSON, "rid1", NoHeader, ErrObj("invalid_client", MissingVal)),
          Resp(HTTP_STATUS_INVALID_PATH_ROOT, JSON, "rid1", NoHeader,
               ErrObj("invalid_root", MissingVal)),
          Resp(409, JSON, "rid1", NoHeader, ErrStr("other"))}

NoResp == Resp(0, "None", "None", NoHeader, NotJson)

(***************************************************************************)
(* raise_dropbox_error_for_resp: the exception a response raises, or       *)
(* NoError when the function returns.  KeyError, TypeError, ValueError and *)
(* AssertionError are the faults of the function's own lookups.            *)
(***************************************************************************)
\* the body attribute of an exception that was given None
NoBody == Body(FALSE, "None", "None", MissingVal, "None", "None", NoneVal)

\* the exceptions built without the request id
Exc_NoRequestId(k, e, st, bo, rid) ==
    [kind |-> k, error |-> e, status_code |-> st, backoff |-> bo, request_id |-> "None",
     body |-> NoBody]

Exc(k, e, st, bo, rid) ==
    [kind |-> k, error |-> e, status_code |-> st, backoff |-> bo, request_id |-> rid,
     body |-> NoBody]

\* HttpError, InternalServerError and BadInputError keep res.text
WithBody(x, b) == [x EXCEPT !.body = b]

NoError == Exc("NoError", "None", 0, NoneVal, "None")
Fault(k) == Exc(k, "None", 0, NoneVal, "None")

HttpErrorKinds == {"InternalServerError", "AuthError", "BadInputError",
                   "PathRootError", "RateLimitError", "HttpError"}
FaultKinds == {"KeyError", "TypeError", "ValueError", "AssertionError"}

\* the value of res.json()['error'] as the exceptions carry it
ErrorValue(b) == IF b.error = "obj" THEN b.error_tag ELSE b.error

\* invalid_grant reported as an expired access token
Classify400_Expired(res) ==
    LET rid == res.request_id
        b == res.body
    IN  IF ~b.json THEN WithBody(Exc("BadInputError", "None", 400, NoneVal, rid), b)
        ELSE IF b.error = "absent" THEN Fault("KeyError")
        ELSE IF b.error = "invalid_grant"
             THEN Exc("AuthError", "expired_access_token", 401, NoneVal, rid)
        ELSE WithBody(Exc("BadInputError", "None", 400, NoneVal, rid), b)

Classify400(res) ==
    LET rid == res.request_id
        b == res.body
    IN  IF ~b.json THEN WithBody(Exc("BadInputError", "None", 400, NoneVal, rid), b)
        ELSE IF b.error = "absent" THEN Fault("KeyError")
        ELSE IF b.error = "invalid_grant"
             THEN Exc("AuthError", "invalid_access_token", 401, NoneVal, rid)
        ELSE WithBody(Exc("BadInputError", "None", 400, NoneVal, rid), b)

Classify401(res) ==
    LET rid == res.request_id
        b == res.body
    IN  IF res.content_type # JSON THEN Fault("AssertionError")
        ELSE IF ~b.json THEN Fault("ValueError")
        ELSE IF b.error = "absent" THEN Fault("KeyError")
        ELSE IF b.error # "obj" THEN Fault("TypeError")
        ELSE IF b.error_tag = "absent" THEN Fault("KeyError")
        ELSE Exc("AuthError", b.error_tag, 401, NoneVal, rid)

Classify422(res) ==
    LET rid == res.request_id
        b == res.body
    IN  IF ~b.json THEN Fault("ValueError")
        ELSE IF b.error = "absent" THEN Fault("KeyError")
        ELSE Exc("PathRootError", ErrorValue(b), 422, NoneVal, rid)

Classify429(res) ==
    LET rid == res.request_id
        b == res.body
    IN  IF res.content_type = JSON
        THEN IF ~b.json THEN Fault("ValueError")
             ELSE IF b.error = "absent" THEN Fault("KeyError")
             ELSE IF b.error # "obj" THEN Fault("TypeError")
             ELSE IF b.error_retry_after = MissingVal THEN Fault("KeyError")
             ELSE Exc("RateLimitError", ErrorValue(b), 429, b.error_retry_after, rid)
        ELSE IF res.retry_after.present
             THEN IF ParseInt(res.retry_after.text).ok
                  THEN Exc("RateLimitError", "None", 429,
                           ParseInt(res.retry_after.text).val, rid)
                  ELSE Fault("ValueError")
             ELSE Exc("RateLimitError", "None", 429, NoneVal, rid)

\* the pass-through band without 409
PassThrough_No409(st) == st \in {403, 404}

PassThrough(st) == st \in {403, 404, 409}

\* the classifier taking every status below 400 for a success
raise_dropbox_error_for_resp_Below400(res) ==
    LET rid == res.request_id
        st == res.status_code
    IN  IF st >= 500
        THEN WithBody(Exc("InternalServerError", "None", st, NoneVal, rid), res.body)
        ELSE IF st = 400 THEN Classify400(res)
        ELSE IF st = 401 THEN Classify401(res)
        ELSE IF st = HTTP_STATUS_INVALID_PATH_ROOT THEN Classify422(res)
        ELSE IF st = 429 THEN Classify429(res)
        ELSE IF PassThrough(st) THEN NoError
        ELSE IF st >= 400
             THEN WithBody(Exc("HttpError", "None", st, NoneVal, rid), res.body)
        ELSE NoError

raise_dropbox_error_for_resp(res) ==
    LET rid == res.request_id
        st == res.status_code
    IN  IF st >= 500
        THEN WithBody(Exc("InternalServerError", "None", st, NoneVal, rid), res.body)
        ELSE IF st = 400 THEN Classify400(res)
        ELSE IF st = 401 THEN Classify401(res)
        ELSE IF st = HTTP_STATUS_INVALID_PATH_ROOT THEN Classify422(res)
        ELSE IF st = 429 THEN Classify429(res)
        ELSE IF PassThrough(st) THEN NoError
        ELSE IF ~(200 <= st /\ st <= 299)
             THEN WithBody(Exc("HttpError", "None", st, NoneVal, rid), res.body)
        ELSE NoError

(***************************************************************************)
(* Requests handed to session.post                                         *)
(***************************************************************************)
\* no Dropbox-API-Arg header: json.dumps never gives the empty text
NoArg == << >>
NoForm == [grant_type |-> "None", refresh_token |-> FALSE, client_id |-> FALSE,
           client_secret |-> FALSE]

Req(u, au, ua, ct, arg, js, dt, fm) ==
    [url |-> u, authorization |-> au, user_agent |-> ua, content_type |-> ct,
     api_arg |-> arg, json |-> js, data |-> dt, form |-> fm]

NoReq == Req("None", "None", "None", "None", NoArg, "None", "None", NoForm)

\* the url without the version segment
_get_route_url_NoVersion(hostname, route_name) ==
    "https://" \o hostname \o "/" \o route_name

_get_route_url(hostname, route_name) ==
    "https://" \o hostname \o "/" \o API_VERSION \o "/" \o route_name

Ops == {"users_get_current_account", "files_list_folder", "files_get_metadata",
        "path_exists", "files_upload", "files_create_folder"}
WriteModes == {"overwrite", "add", "update"}
UploadPath == << "/", "a", "/", "b", ".", "j", "p", "g" >>
NoPath == << >>

\* the characters of the names and modes files_upload writes
Chars(w) ==
    CASE w = "path" -> << "p", "a", "t", "h" >>
      [] w = "mode" -> << "m", "o", "d", "e" >>
      [] w = "autorename" -> << "a", "u", "t", "o", "r", "e", "n", "a", "m", "e" >>
      [] w = "mute" -> << "m", "u", "t", "e" >>
      [] w = "strict_conflict" ->
            << "s", "t", "r", "i", "c", "t", "_", "c", "o", "n", "f", "l", "i", "c", "t" >>
      [] w = "overwrite" -> << "o", "v", "e", "r", "w", "r", "i", "t", "e" >>
      [] w = "add" -> << "a", "d", "d" >>
      [] w = "update" -> << "u", "p", "d", "a", "t", "e" >>

\* the dict files_upload passes to dumps
UploadArg(p, wm) ==
    << StrMember(Chars("path"), p), StrMember(Chars("mode"), Chars(wm)),
       BoolMember(Chars("autorename"), TRUE), BoolMember(Chars("mute"), FALSE),
       BoolMember(Chars("strict_conflict"), FALSE) >>

\* the url each facade operation posts to
OpUrl(o) ==
    CASE o = "users_get_current_account" -> _get_route_url(API_HOST, DB_USERS_GCA_ROUTE)
      [] o = "files_list_folder" -> _get_route_url(API_HOST, DB_LIST_ROUTE)
      [] o \in {"files_get_metadata", "path_exists"} ->
            _get_route_url(API_HOST, DB_GETMETADATA_ROUTE)
      [] o = "files_upload" -> _get_route_url(API_CONTENT_HOST, DB_UPLOAD_ROUTE)
      [] o = "files_create_folder" -> _get_route_url(API_HOST, DB_CREATEFOLDER_ROUTE)

\* the headers dict each facade operation passes to the retry loop
OpContentType(o) ==
    CASE o = "users_get_current_account" -> "None"
      [] o = "files_upload" -> "application/octet-stream"
      [] OTHER -> JSON

\* the Dropbox-API-Arg header, built once per call of files_upload
OpApiArg(o, wm, p, ensure_ascii) ==
    IF o = "files_upload" THEN dumps(UploadArg(p, wm), ensure_ascii) ELSE NoArg

\* files_create_folder passing no json= argument
OpJson_NoFolderParams(o) ==
    IF o \in {"users_get_current_account", "files_upload", "files_create_folder"}
    THEN "None" ELSE "params"

\* the json= argument: "params" when a dict is passed, "None" otherwise
OpJson(o) ==
    IF o \in {"users_get_current_account", "files_upload"} THEN "None" ELSE "params"

\* the data= argument: "file" when the payload is passed, "None" otherwise
OpData(o) == IF o = "files_upload" THEN "file" ELSE "None"

\* the headers of one attempt: User-Agent and Authorization are set from the
\* client, then self._headers is merged over them
\* the request leaving the Authorization header out when there is no token
TargetReq_NoHeader(o, arg, tok) ==
    Req(OpUrl(o),
        IF custom_headers = "override" THEN "Basic override"
        ELSE IF tok = "None" THEN "None" ELSE "Bearer " \o tok,
        IF custom_headers = "override" THEN "agent override" ELSE user_agent,
        OpContentType(o), arg, OpJson(o), OpData(o), NoForm)

\* the retries posting without the body of the first attempt
TargetReq_RetryWithoutBody(o, arg, tok) ==
    Req(OpUrl(o),
        IF custom_headers = "override" THEN "Basic override" ELSE "Bearer " \o tok,
        IF custom_headers = "override" THEN "agent override" ELSE user_agent,
        OpContentType(o), arg,
        IF targetPosts >= 1 THEN "None" ELSE OpJson(o),
        IF targetPosts >= 1 THEN "None" ELSE OpData(o), NoForm)

\* the headers built once per call and reused by every attempt
TargetReq_BuiltOnce(o, arg, tok) ==
    Req(OpUrl(o),
        IF custom_headers = "override" THEN "Basic override"
        ELSE IF firstAuth # "None" THEN firstAuth ELSE "Bearer " \o tok,
        IF custom_headers = "override" THEN "agent override" ELSE user_agent,
        OpContentType(o), arg, OpJson(o), OpData(o), NoForm)

TargetReq(o, arg, tok) ==
    Req(OpUrl(o),
        IF custom_headers = "override" THEN "Basic override" ELSE "Bearer " \o tok,
        IF custom_headers = "override" THEN "agent override" ELSE user_agent,
        OpContentType(o), arg, OpJson(o), OpData(o), NoForm)

\* the request of refresh_access_token
TokenReq ==
    Req("https://" \o API_HOST \o "/oauth2/token", "None", "None", "None", NoArg,
        "None", "form",
        [grant_type |-> "refresh_token", refresh_token |-> oauth2_refresh_token,
         client_id |-> app_key, client_secret |-> app_secret])

(***************************************************************************)
(* Outcomes of a facade call                                               *)
(***************************************************************************)
Value(vt, b, f) == [vtype |-> vt, body |-> b, flag |-> f]
NoValue == Value("None", NotJson, FALSE)

NoOutcome == [type |-> "none", exc |-> NoError, value |-> NoValue]
Raised(e) == [type |-> "raise", exc |-> e, value |-> NoValue]
Returned(v) == [type |-> "return", exc |-> NoError, value |-> v]

NoStart == [access_token |-> "None", expiration |-> NoneVal, refresh_token |-> FALSE,
            app_key |-> FALSE, now |-> 0]
NoSleep == [num |-> 0, den |-> 1]
NoPrint == [access_token |-> "None", expires_at |-> NoneVal]

\* the locals of a second invocation of a facade operation on the client:
\* where it stands, the Authorization of its attempt in flight, the loop's
\* counters, the expiry refresh_access_token computed and has yet to store,
\* and what its refresh printed
NoSecond ==
    [pc |-> "idle", authorization |-> "None", attempt |-> 0, rate_limit_errors |-> 0,
     has_refreshed |-> FALSE, refresh_caller |-> "None", tokenPosts |-> 0,
     targetPosts |-> 0, new_token |-> "None", new_expiration |-> NoneVal,
     printed |-> NoPrint]

\* the capture loop before its first iteration; a date is the number of its
\* day, NoDate the empty string prev_ymd starts with; the counts are of the
\* folder operations and uploads made so far, last_ymd the date of the
\* capture before, created whether the last iteration created the folder
NoDate == 0
NoCapture ==
    [run_timelapse |-> TRUE, prev_ymd |-> NoDate, image_count |-> 0,
     prev_dark_mode |-> FALSE, today |-> 1, ymd_str |-> NoDate, last_ymd |-> NoDate,
     dir_checks |-> 0, create_folder_calls |-> 0, uploads |-> 0, created |-> FALSE]

\* a call is between its entry and its return
Running == {"token_wait", "token_store", "target_wait"}

callVars == << op, writemode, path, api_arg, attempt, rate_limit_errors, has_refreshed,
               refresh_caller, callStart, loopRefreshCalls, tokenPosts, targetPosts,
               sleeps, lastSleep, lastReq, firstAuth, lastRes >>

CtorArg(at, rt, ex, ak, as, me, mr, hd, ua, se) ==
    [oauth2_access_token |-> at, oauth2_refresh_token |-> rt,
     oauth2_access_token_expiration |-> ex, app_key |-> ak, app_secret |-> as,
     max_retries_on_error |-> me, max_retries_on_rate_limit |-> mr,
     headers |-> hd, user_agent |-> ua, session |-> se]

\* before __init__ is called
NoCtorArg == CtorArg("None", FALSE, NoneVal, FALSE, FALSE, 0, NoneVal, "None", "None", "None")

Init ==
    /\ ctorArgs = NoCtorArg
    /\ pc = "new"
    /\ oauth2_access_token = "None"
    /\ oauth2_refresh_token = FALSE
    /\ oauth2_access_token_expiration = NoneVal
    /\ app_key = FALSE
    /\ app_secret = FALSE
    /\ max_retries_on_error = 0
    /\ max_retries_on_rate_limit = NoneVal
    /\ custom_headers = "None"
    /\ user_agent = "None"
    /\ now = Now0
    /\ calls = 0
    /\ op = "None"
    /\ writemode = "None"
    /\ path = NoPath
    /\ api_arg = NoArg
    /\ second = NoSecond
    /\ overlapped = FALSE
    /\ cam = NoCapture
    /\ attempt = 0
    /\ rate_limit_errors = 0
    /\ has_refreshed = FALSE
    /\ refresh_caller = "None"
    /\ callStart = NoStart
    /\ loopRefreshCalls = 0
    /\ tokenPosts = 0
    /\ targetPosts = 0
    /\ sleeps = 0
    /\ lastSleep = NoSleep
    /\ lastReq = NoReq
    /\ firstAuth = "None"
    /\ lastRes = NoResp
    /\ printed = NoPrint
    /\ outcome = NoOutcome

(***************************************************************************)
(* DropboxAPI.__init__                                                     *)
(***************************************************************************)
\* the checks without the one for missing credentials
CtorAccepts_NoCredCheck(a) ==
    /\ a.session = "Session"
    /\ a.headers # "notdict"
    /\ ~(a.oauth2_refresh_token /\ ~a.app_key)

\* the checks without the one for a refresh token lacking its app key
CtorAccepts_NoAppKeyCheck(a) ==
    /\ (TokenSet(a.oauth2_access_token) \/ a.oauth2_refresh_token
          \/ (a.app_key /\ a.app_secret))
    /\ a.session = "Session"
    /\ a.headers # "notdict"

\* the ValueError checks of __init__, in the order of the code
CtorAccepts(a) ==
    /\ (TokenSet(a.oauth2_access_token) \/ a.oauth2_refresh_token
          \/ (a.app_key /\ a.app_secret))
    /\ a.session = "Session"
    /\ a.headers # "notdict"
    /\ ~(a.oauth2_refresh_token /\ ~a.app_key)

Construct(a) ==
    /\ pc = "new"
    /\ ctorArgs' = a
    /\ IF CtorAccepts(a)
       THEN /\ pc' = "idle"
            /\ oauth2_access_token' = a.oauth2_access_token
            /\ oauth2_refresh_token' = a.oauth2_refresh_token
            /\ oauth2_access_token_expiration' = a.oauth2_access_token_expiration
            /\ app_key' = a.app_key
            /\ app_secret' = a.app_secret
            /\ max_retries_on_error' = a.max_retries_on_error
            /\ max_retries_on_rate_limit' = a.max_retries_on_rate_limit
            /\ custom_headers' = a.headers
            /\ user_agent' = IF a.user_agent # "None"
                             THEN a.user_agent \o "/" \o USER_AGENT
                             ELSE USER_AGENT
       ELSE /\ pc' = "ctor_failed"
            /\ UNCHANGED << credVars, max_retries_on_error, max_retries_on_rate_limit,
                            custom_headers, user_agent >>
    /\ UNCHANGED << now, calls, callVars, printed, outcome, secondVars, camVars >>

(***************************************************************************)
(* The retry loop's steps                                                  *)
(***************************************************************************)
\* top of the while loop: build the headers and call session.post
DispatchTarget(tok) ==
    /\ pc' = "target_wait"
    /\ targetPosts' = targetPosts + 1
    /\ lastReq' = TargetReq(op, api_arg, tok)
    /\ firstAuth' = IF targetPosts = 0 THEN TargetReq(op, api_arg, tok).authorization
                    ELSE firstAuth
    /\ UNCHANGED tokenPosts

\* refresh_access_token past its guard: call session.post on oauth2/token
DispatchToken(caller) ==
    /\ pc' = "token_wait"
    /\ refresh_caller' = caller
    /\ tokenPosts' = tokenPosts + 1
    /\ lastReq' = TokenReq
    /\ UNCHANGED << targetPosts, firstAuth >>

\* the facade call ends: a return value or an exception reaches the caller
EndCall(out) ==
    /\ pc' = "done"
    /\ outcome' = out
    /\ UNCHANGED << tokenPosts, targetPosts, lastReq, firstAuth >>

\* path_exists applied to the result of files_get_metadata
path_exists(v) ==
    IF v.vtype = "str" THEN Raised(Fault("TypeError"))
    ELSE IF v.body.tag = "absent" THEN Raised(Fault("KeyError"))
    ELSE IF v.body.tag = "folder" THEN Returned(Value("bool", NotJson, TRUE))
    ELSE IF v.body.tag = "file" THEN Returned(Value("bool", NotJson, TRUE))
    ELSE Returned(Value("bool", NotJson, FALSE))

\* what the facade operation returns for the loop's return value v
Finish(o, v) == IF o = "path_exists" THEN path_exists(v) ELSE Returned(v)

(***************************************************************************)
(* check_and_refresh_access_token                                          *)
(***************************************************************************)
can_refresh == oauth2_refresh_token /\ app_key

\* the test passing an absent expiry when an access token is stored
needs_refresh_TokenFirst(time_now_sec) ==
    oauth2_refresh_token /\
        IF ExpirationSet(oauth2_access_token_expiration)
        THEN time_now_sec + TOKEN_EXPIRATION_BUFFER >= oauth2_access_token_expiration
        ELSE ~TokenSet(oauth2_access_token)

\* the test looking only for an absent expiry
needs_refresh_NoExpiry(time_now_sec) ==
    oauth2_refresh_token /\ ~ExpirationSet(oauth2_access_token_expiration)

needs_refresh(time_now_sec) ==
    oauth2_refresh_token /\
        (~ExpirationSet(oauth2_access_token_expiration) \/
         time_now_sec + TOKEN_EXPIRATION_BUFFER >= oauth2_access_token_expiration)

needs_token == ~TokenSet(oauth2_access_token)

\* the check with the buffer comparison made strict
check_and_refresh_strict(time_now_sec) ==
    /\ can_refresh
    /\ \/ needs_token
       \/ oauth2_refresh_token /\
            (~ExpirationSet(oauth2_access_token_expiration) \/
             time_now_sec + TOKEN_EXPIRATION_BUFFER > oauth2_access_token_expiration)

\* TRUE when the check calls refresh_access_token
check_and_refresh_access_token(time_now_sec) ==
    (needs_refresh(time_now_sec) \/ needs_token) /\ can_refresh

\* the guard letting every refresh through
RefreshPossible_Always == TRUE

\* the guard of refresh_access_token: FALSE when it returns before the POST
RefreshPossible == oauth2_refresh_token /\ app_key

(***************************************************************************)
(* A facade operation is called, dt seconds after the previous step: the   *)
(* validity check, then either the POST to oauth2/token or the first POST  *)
(* of the retry loop.                                                      *)
(***************************************************************************)
\* the counters of the loop kept from the call before
Call_KeepCounters(o, wm, p, ensure_ascii, dt) ==
    /\ pc = "idle"
    /\ calls' = calls + 1
    /\ now + dt <= MaxTime
    /\ now' = now + dt
    /\ op' = o
    /\ writemode' = wm
    /\ path' = p
    /\ api_arg' = OpApiArg(o, wm, p, ensure_ascii)
    /\ callStart' = [access_token |-> oauth2_access_token,
                     expiration |-> oauth2_access_token_expiration,
                     refresh_token |-> oauth2_refresh_token,
                     app_key |-> app_key, now |-> now + dt]
    /\ UNCHANGED << attempt, rate_limit_errors, has_refreshed >>
    /\ loopRefreshCalls' = 0
    /\ sleeps' = 0
    /\ lastSleep' = NoSleep
    /\ lastRes' = NoResp
    /\ outcome' = NoOutcome
    /\ IF check_and_refresh_access_token(now + dt) /\ RefreshPossible
       THEN /\ pc' = "token_wait"
            /\ refresh_caller' = "check"
            /\ tokenPosts' = 1
            /\ targetPosts' = 0
            /\ lastReq' = TokenReq
            /\ firstAuth' = "None"
       ELSE /\ pc' = "target_wait"
            /\ refresh_caller' = "None"
            /\ tokenPosts' = 0
            /\ targetPosts' = 1
            /\ lastReq' = TargetReq(o, OpApiArg(o, wm, p, ensure_ascii), oauth2_access_token)
            /\ firstAuth' = TargetReq(o, OpApiArg(o, wm, p, ensure_ascii),
                                      oauth2_access_token).authorization
    /\ overlapped' = (overlapped \/ second.pc \in Running)
    /\ UNCHANGED << credVars, cfgVars, printed, second, camVars >>

Call(o, wm, p, ensure_ascii, dt) ==
    /\ pc = "idle"
    /\ calls' = calls + 1
    /\ now + dt <= MaxTime
    /\ now' = now + dt
    /\ op' = o
    /\ writemode' = wm
    /\ path' = p
    /\ api_arg' = OpApiArg(o, wm, p, ensure_ascii)
    /\ callStart' = [access_token |-> oauth2_access_token,
                     expiration |-> oauth2_access_token_expiration,
                     refresh_token |-> oauth2_refresh_token,
                     app_key |-> app_key, now |-> now + dt]
    /\ attempt' = 0
    /\ rate_limit_errors' = 0
    /\ has_refreshed' = FALSE
    /\ loopRefreshCalls' = 0
    /\ sleeps' = 0
    /\ lastSleep' = NoSleep
    /\ lastRes' = NoResp
    /\ outcome' = NoOutcome
    /\ IF check_and_refresh_access_token(now + dt) /\ RefreshPossible
       THEN /\ pc' = "token_wait"
            /\ refresh_caller' = "check"
            /\ tokenPosts' = 1
            /\ targetPosts' = 0
            /\ lastReq' = TokenReq
            /\ firstAuth' = "None"
       ELSE /\ pc' = "target_wait"
            /\ refresh_caller' = "None"
            /\ tokenPosts' = 0
            /\ targetPosts' = 1
            /\ lastReq' = TargetReq(o, OpApiArg(o, wm, p, ensure_ascii), oauth2_access_token)
            /\ firstAuth' = TargetReq(o, OpApiArg(o, wm, p, ensure_ascii),
                                      oauth2_access_token).authorization
    /\ overlapped' = (overlapped \/ second.pc \in Running)
    /\ UNCHANGED << credVars, cfgVars, printed, second, camVars >>

(***************************************************************************)
(* refresh_access_token after its POST: what the response of oauth2/token  *)
(* does to the client.  exc is the exception leaving the function          *)
(* (NoError when it returns), print tells whether the new values were      *)
(* printed.                                                                *)
(***************************************************************************)
RefreshResult(e, at, ex, pr) ==
    [exc |-> e, access_token |-> at, expiration |-> ex, print |-> pr]

\* the refresh storing expires_in without the clock
refresh_access_token_NoClock(res, tok, exp, time_now_sec) ==
    LET e == raise_dropbox_error_for_resp(res)
        b == res.body
    IN  IF e.kind # "NoError" THEN RefreshResult(e, tok, exp, FALSE)
        ELSE IF ~b.json THEN RefreshResult(Fault("ValueError"), tok, exp, FALSE)
        ELSE IF b.error # "absent" THEN RefreshResult(NoError, tok, exp, FALSE)
        ELSE IF b.access_token = "None"
             THEN RefreshResult(Fault("KeyError"), tok, exp, FALSE)
        ELSE IF b.expires_in = NoneVal
             THEN RefreshResult(Fault("KeyError"), b.access_token, exp, FALSE)
        ELSE IF b.expires_in = BadVal
             THEN RefreshResult(Fault("ValueError"), b.access_token, exp, FALSE)
        ELSE RefreshResult(NoError, b.access_token, b.expires_in, TRUE)

\* the refresh reading the body without looking at the status
refresh_access_token_AnyStatus(res, tok, exp, time_now_sec) ==
    LET b == res.body
    IN  IF ~b.json THEN RefreshResult(Fault("ValueError"), tok, exp, FALSE)
        ELSE IF b.error # "absent" THEN RefreshResult(NoError, tok, exp, FALSE)
        ELSE IF b.access_token = "None"
             THEN RefreshResult(Fault("KeyError"), tok, exp, FALSE)
        ELSE IF b.expires_in = NoneVal
             THEN RefreshResult(Fault("KeyError"), b.access_token, exp, FALSE)
        ELSE IF b.expires_in = BadVal
             THEN RefreshResult(Fault("ValueError"), b.access_token, exp, FALSE)
        ELSE RefreshResult(NoError, b.access_token, time_now_sec + b.expires_in, TRUE)

\* the refresh swallowing the typed errors of the token endpoint
refresh_access_token_Silent(res, tok, exp, time_now_sec) ==
    LET e == raise_dropbox_error_for_resp(res)
        b == res.body
    IN  IF e.kind # "NoError" THEN RefreshResult(NoError, tok, exp, FALSE)
        ELSE IF ~b.json THEN RefreshResult(Fault("ValueError"), tok, exp, FALSE)
        ELSE IF b.error # "absent" THEN RefreshResult(NoError, tok, exp, FALSE)
        ELSE IF b.access_token = "None"
             THEN RefreshResult(Fault("KeyError"), tok, exp, FALSE)
        ELSE IF b.expires_in = NoneVal
             THEN RefreshResult(Fault("KeyError"), b.access_token, exp, FALSE)
        ELSE IF b.expires_in = BadVal
             THEN RefreshResult(Fault("ValueError"), b.access_token, exp, FALSE)
        ELSE RefreshResult(NoError, b.access_token, time_now_sec + b.expires_in, TRUE)

refresh_access_token(res, tok, exp, time_now_sec) ==
    LET e == raise_dropbox_error_for_resp(res)
        b == res.body
    IN  IF e.kind # "NoError" THEN RefreshResult(e, tok, exp, FALSE)
        ELSE IF ~b.json THEN RefreshResult(Fault("ValueError"), tok, exp, FALSE)
        ELSE IF b.error # "absent" THEN RefreshResult(NoError, tok, exp, FALSE)
        ELSE IF b.access_token = "None"
             THEN RefreshResult(Fault("KeyError"), tok, exp, FALSE)
        ELSE IF b.expires_in = NoneVal
             THEN RefreshResult(Fault("KeyError"), b.access_token, exp, FALSE)
        ELSE IF b.expires_in = BadVal
             THEN RefreshResult(Fault("ValueError"), b.access_token, exp, FALSE)
        ELSE RefreshResult(NoError, b.access_token, time_now_sec + b.expires_in, TRUE)

\* the response of oauth2/token handled with has_refreshed set whoever
\* asked for the refresh
TokenResponse_FlagOnCheck(res) ==
    /\ pc = "token_wait"
    /\ lastRes' = res
    /\ LET r == refresh_access_token(res, oauth2_access_token,
                                     oauth2_access_token_expiration, now)
       IN  /\ oauth2_access_token' = r.access_token
           /\ oauth2_access_token_expiration' = r.expiration
           /\ printed' = IF r.print
                         THEN [access_token |-> r.access_token,
                               expires_at |-> r.expiration]
                         ELSE printed
           /\ IF r.exc.kind # "NoError"
              THEN /\ EndCall(Raised(r.exc))
                   /\ UNCHANGED has_refreshed
              ELSE /\ DispatchTarget(r.access_token)
                   /\ has_refreshed' = TRUE
                   /\ UNCHANGED outcome
    /\ UNCHANGED << oauth2_refresh_token, app_key, app_secret, cfgVars, now, calls, op,
                    writemode, path, api_arg, attempt, rate_limit_errors, refresh_caller,
                    callStart, loopRefreshCalls, sleeps, lastSleep, secondVars, camVars >>

\* the response of oauth2/token handled with has_refreshed set only when the
\* token was replaced
TokenResponse_FlagOnSuccess(res) ==
    /\ pc = "token_wait"
    /\ lastRes' = res
    /\ LET r == refresh_access_token(res, oauth2_access_token,
                                     oauth2_access_token_expiration, now)
       IN  /\ oauth2_access_token' = r.access_token
           /\ oauth2_access_token_expiration' = r.expiration
           /\ printed' = IF r.print
                         THEN [access_token |-> r.access_token,
                               expires_at |-> r.expiration]
                         ELSE printed
           /\ IF r.exc.kind # "NoError"
              THEN /\ EndCall(Raised(r.exc))
                   /\ UNCHANGED has_refreshed
              ELSE /\ DispatchTarget(r.access_token)
                   /\ has_refreshed' = (has_refreshed \/ (refresh_caller = "loop" /\ r.print))
                   /\ UNCHANGED outcome
    /\ UNCHANGED << oauth2_refresh_token, app_key, app_secret, cfgVars, now, calls, op,
                    writemode, path, api_arg, attempt, rate_limit_errors, refresh_caller,
                    callStart, loopRefreshCalls, sleeps, lastSleep, secondVars, camVars >>

\* The response of oauth2/token arrives.  When the refresh returns, the
\* caller goes on: the facade enters the loop, the loop sets has_refreshed
\* and starts its next iteration.
TokenResponse(res) ==
    /\ pc = "token_wait"
    /\ lastRes' = res
    /\ LET r == refresh_access_token(res, oauth2_access_token,
                                     oauth2_access_token_expiration, now)
       IN  /\ oauth2_access_token' = r.access_token
           /\ oauth2_access_token_expiration' = r.expiration
           /\ printed' = IF r.print
                         THEN [access_token |-> r.access_token,
                               expires_at |-> r.expiration]
                         ELSE printed
           /\ IF r.exc.kind # "NoError"
              THEN /\ EndCall(Raised(r.exc))
                   /\ UNCHANGED has_refreshed
              ELSE /\ DispatchTarget(r.access_token)
                   /\ has_refreshed' = (has_refreshed \/ refresh_caller = "loop")
                   /\ UNCHANGED outcome
    /\ UNCHANGED << oauth2_refresh_token, app_key, app_secret, cfgVars, now, calls, op,
                    writemode, path, api_arg, attempt, rate_limit_errors, refresh_caller,
                    callStart, loopRefreshCalls, sleeps, lastSleep, secondVars, camVars >>

(***************************************************************************)
(* post_request_json_string_with_retry: one response of the target route   *)
(***************************************************************************)
\* the body of the with block after raise_dropbox_error_for_resp returned
PostResult(res) ==
    IF PassThrough(res.status_code) THEN Returned(Value("str", res.body, FALSE))
    ELSE IF res.content_type # JSON THEN Raised(Fault("AssertionError"))
    ELSE IF ~res.body.json THEN Raised(Fault("ValueError"))
    ELSE Returned(Value("json", res.body, FALSE))

\* except AuthError: e.error and e.error == 'expired_access_token'
IsExpiredAccessToken(e) == e.error # "None" /\ e.error = "expired_access_token"

\* the retry test off by one
RetryOnError_Strict(a) == a < max_retries_on_error

\* except InternalServerError: attempt <= self._max_retries_on_error
RetryOnError(a) == a <= max_retries_on_error

\* the ceiling test off by one
RetryOnRateLimit_Strict(n) ==
    max_retries_on_rate_limit = NoneVal \/ max_retries_on_rate_limit > n

\* except RateLimitError: the ceiling is None or not yet exceeded
RetryOnRateLimit(n) ==
    max_retries_on_rate_limit = NoneVal \/ max_retries_on_rate_limit >= n

\* the backoff without the default
RateLimitBackoff_NoDefault(e) == IF e.backoff # NoneVal THEN e.backoff ELSE 0

\* backoff = e.backoff if e.backoff is not None else 5.0
RateLimitBackoff(e) == IF e.backoff # NoneVal THEN e.backoff ELSE DEFAULT_BACKOFF

\* the backoff with the exponent one too high
ErrorBackoff_NextPower(a, k) == [num |-> Pow2(a + 1) * k, den |-> RandDen]

\* backoff = 2**attempt * random(), random() = k / RandDen
ErrorBackoff(a, k) == [num |-> Pow2(a) * k, den |-> RandDen]

\* time.sleep(d): the clock advances by the whole seconds of d
Sleep(d) ==
    /\ now + (d.num \div d.den) <= MaxTime
    /\ now' = now + (d.num \div d.den)
    /\ sleeps' = sleeps + 1
    /\ lastSleep' = d

NoSleepTaken == UNCHANGED << now, sleeps, lastSleep >>

OnReturn(res) ==
    /\ EndCall(IF PostResult(res).type = "return"
               THEN Finish(op, PostResult(res).value)
               ELSE PostResult(res))
    /\ NoSleepTaken
    /\ UNCHANGED << attempt, rate_limit_errors, has_refreshed, refresh_caller,
                    loopRefreshCalls >>

OnRaise(e) ==
    /\ EndCall(Raised(e))
    /\ NoSleepTaken
    /\ UNCHANGED << attempt, rate_limit_errors, has_refreshed, refresh_caller,
                    loopRefreshCalls >>

\* the refresh branch counting as an attempt
RefreshAndRetry_Counted ==
    /\ loopRefreshCalls' = loopRefreshCalls + 1
    /\ IF RefreshPossible
       THEN /\ DispatchToken("loop")
            /\ UNCHANGED has_refreshed
       ELSE /\ DispatchTarget(oauth2_access_token)
            /\ has_refreshed' = TRUE
            /\ UNCHANGED refresh_caller
    /\ NoSleepTaken
    /\ attempt' = attempt + 1
    /\ UNCHANGED << rate_limit_errors, outcome >>

\* the refresh branch of the handler
RefreshAndRetry ==
    /\ loopRefreshCalls' = loopRefreshCalls + 1
    /\ IF RefreshPossible
       THEN /\ DispatchToken("loop")
            /\ UNCHANGED has_refreshed
       ELSE /\ DispatchTarget(oauth2_access_token)
            /\ has_refreshed' = TRUE
            /\ UNCHANGED refresh_caller
    /\ NoSleepTaken
    /\ UNCHANGED << attempt, rate_limit_errors, outcome >>

\* the handler without the has_refreshed test
OnAuthError_NoFlag(e) ==
    IF IsExpiredAccessToken(e) THEN RefreshAndRetry ELSE OnRaise(e)

\* the handler refreshing on every AuthError
OnAuthError_AnyTag(e) ==
    IF has_refreshed THEN OnRaise(e) ELSE RefreshAndRetry

OnAuthError(e) ==
    IF IsExpiredAccessToken(e)
    THEN IF has_refreshed
         THEN OnRaise(e)
         ELSE RefreshAndRetry
    ELSE OnRaise(e)

OnInternalServerError(e) ==
    /\ attempt' = attempt + 1
    /\ IF RetryOnError(attempt + 1)
       THEN /\ \E k \in 0..(RandDen - 1) : Sleep(ErrorBackoff(attempt + 1, k))
            /\ DispatchTarget(oauth2_access_token)
            /\ UNCHANGED outcome
       ELSE /\ EndCall(Raised(e))
            /\ NoSleepTaken
    /\ UNCHANGED << rate_limit_errors, has_refreshed, refresh_caller, loopRefreshCalls >>

\* the handler starting the count of server errors again
OnRateLimitError_ResetAttempt(e) ==
    /\ max_retries_on_rate_limit = NoneVal => rate_limit_errors < MaxRateLimitErrors
    /\ rate_limit_errors' = rate_limit_errors + 1
    /\ attempt' = 0
    /\ IF RetryOnRateLimit(rate_limit_errors + 1)
       THEN IF RateLimitBackoff(e) < 0
            THEN /\ EndCall(Raised(Fault("ValueError")))
                 /\ NoSleepTaken
            ELSE /\ Sleep([num |-> RateLimitBackoff(e), den |-> 1])
                 /\ DispatchTarget(oauth2_access_token)
                 /\ UNCHANGED outcome
       ELSE /\ EndCall(Raised(e))
            /\ NoSleepTaken
    /\ UNCHANGED << has_refreshed, refresh_caller, loopRefreshCalls >>

\* the handler running the validity check again after its sleep
OnRateLimitError_Recheck(e) ==
    /\ max_retries_on_rate_limit = NoneVal => rate_limit_errors < MaxRateLimitErrors
    /\ rate_limit_errors' = rate_limit_errors + 1
    /\ IF RetryOnRateLimit(rate_limit_errors + 1)
       THEN IF RateLimitBackoff(e) < 0
            THEN /\ EndCall(Raised(Fault("ValueError")))
                 /\ NoSleepTaken
                 /\ UNCHANGED refresh_caller
            ELSE /\ Sleep([num |-> RateLimitBackoff(e), den |-> 1])
                 /\ IF check_and_refresh_access_token(now') /\ RefreshPossible
                    THEN DispatchToken("check")
                    ELSE DispatchTarget(oauth2_access_token) /\ UNCHANGED refresh_caller
                 /\ UNCHANGED outcome
       ELSE /\ EndCall(Raised(e))
            /\ NoSleepTaken
            /\ UNCHANGED refresh_caller
    /\ UNCHANGED << attempt, has_refreshed, loopRefreshCalls >>

OnRateLimitError(e) ==
    /\ max_retries_on_rate_limit = NoneVal => rate_limit_errors < MaxRateLimitErrors
    /\ rate_limit_errors' = rate_limit_errors + 1
    /\ IF RetryOnRateLimit(rate_limit_errors + 1)
       THEN IF RateLimitBackoff(e) < 0
            THEN /\ EndCall(Raised(Fault("ValueError")))
                 /\ NoSleepTaken
            ELSE /\ Sleep([num |-> RateLimitBackoff(e), den |-> 1])
                 /\ DispatchTarget(oauth2_access_token)
                 /\ UNCHANGED outcome
       ELSE /\ EndCall(Raised(e))
            /\ NoSleepTaken
    /\ UNCHANGED << attempt, has_refreshed, refresh_caller, loopRefreshCalls >>

TargetResponse(res) ==
    /\ pc = "target_wait"
    /\ lastRes' = res
    /\ LET e == raise_dropbox_error_for_resp(res)
       IN  CASE e.kind = "NoError" -> OnReturn(res)
             [] e.kind = "AuthError" -> OnAuthError(e)
             [] e.kind = "InternalServerError" -> OnInternalServerError(e)
             [] e.kind = "RateLimitError" -> OnRateLimitError(e)
             [] OTHER -> OnRaise(e)
    /\ UNCHANGED << credVars, cfgVars, calls, op, writemode, path, api_arg, callStart,
                    printed, secondVars, camVars >>

(***************************************************************************)
(* Specifications                                                          *)
(***************************************************************************)
NeverExpires == MaxTime + TOKEN_EXPIRATION_BUFFER + 1

Expirations ==
    {NoneVal, 0, Now0 - 10, Now0 + TOKEN_EXPIRATION_BUFFER,
     Now0 + TOKEN_EXPIRATION_BUFFER + 1, NeverExpires}

ErrorCeilings == 0..MaxRetriesOnError
RateLimitCeilings == {NoneVal} \cup 0..MaxRetriesOnRateLimit

\* every combination of credentials, with one retry policy
CredentialArgs ==
    {CtorArg(at, rt, ex, ak, as, 1, 1, "None", "XiaoCPY1", "Session") :
        at \in {"None", "T0"}, rt \in BOOLEAN, ex \in Expirations,
        ak \in BOOLEAN, as \in BOOLEAN}

\* every retry policy, with credentials that can and cannot refresh
PolicyArgs ==
    {CtorArg("T0", rt, NeverExpires, rt, rt, me, mr, "None", "XiaoCPY1", "Session") :
        rt \in BOOLEAN, me \in ErrorCeilings, mr \in RateLimitCeilings}

Elapsed == 0..MaxElapsed

(***************************************************************************)
(* A second invocation of files_get_metadata on the same client, by a      *)
(* caller that does not wait for the first: it runs the same code on its   *)
(* own locals and on the client's token and expiry, and the two take turns *)
(* where session.post waits and between the statements of                  *)
(* refresh_access_token that store the token and the expiry.               *)
(***************************************************************************)
firstVars == << pc, oauth2_refresh_token, app_key, app_secret, cfgVars, calls, callVars,
                printed, outcome, camVars >>

\* the attempt keeping the Authorization header of the attempt before it
SecondDispatchTarget_KeepHeader(s, tok) ==
    [s EXCEPT !.pc = "target_wait",
              !.authorization = IF s.authorization # "None" THEN s.authorization
                                ELSE TargetReq("files_get_metadata", NoArg, tok).authorization,
              !.targetPosts = @ + 1]

\* top of the while loop: build the headers and call session.post
SecondDispatchTarget(s, tok) ==
    [s EXCEPT !.pc = "target_wait",
              !.authorization = TargetReq("files_get_metadata", NoArg, tok).authorization,
              !.targetPosts = @ + 1]

\* refresh_access_token past its guard: call session.post on oauth2/token
SecondDispatchToken(s, caller) ==
    [s EXCEPT !.pc = "token_wait", !.refresh_caller = caller, !.tokenPosts = @ + 1]

\* refresh_access_token returned: the loop sets has_refreshed and iterates,
\* the facade enters the loop
SecondAfterRefresh(s, tok) ==
    SecondDispatchTarget([s EXCEPT !.has_refreshed = @ \/ s.refresh_caller = "loop"], tok)

SecondEnd(s) == [s EXCEPT !.pc = "done"]

\* the facade operation is called: the validity check, then the first POST
SecondCall ==
    /\ pc \notin {"new", "ctor_failed"}
    /\ second.pc = "idle"
    /\ overlapped' = (overlapped \/ pc \in Running)
    /\ second' = IF check_and_refresh_access_token(now) /\ RefreshPossible
                 THEN SecondDispatchToken(second, "check")
                 ELSE SecondDispatchTarget(second, oauth2_access_token)
    /\ UNCHANGED << firstVars, oauth2_access_token, oauth2_access_token_expiration, now >>

\* the answer of oauth2/token: the token is stored and the clock read; the
\* expiry is stored by the statement after
SecondTokenResponse(res) ==
    /\ second.pc = "token_wait"
    /\ LET r == refresh_access_token(res, oauth2_access_token,
                                     oauth2_access_token_expiration, now)
       IN  /\ oauth2_access_token' = r.access_token
           /\ second' = IF r.exc.kind # "NoError" THEN SecondEnd(second)
                        ELSE IF r.print
                        THEN [second EXCEPT !.pc = "token_store",
                                            !.new_token = r.access_token,
                                            !.new_expiration = r.expiration]
                        ELSE SecondAfterRefresh(second, oauth2_access_token)
    /\ UNCHANGED << firstVars, oauth2_access_token_expiration, now, overlapped >>

\* the expiry is stored, token and expiry are printed, the caller goes on
SecondStoreExpiry ==
    /\ second.pc = "token_store"
    /\ oauth2_access_token_expiration' = second.new_expiration
    /\ second' = SecondAfterRefresh(
                    [second EXCEPT !.printed = [access_token |-> second.new_token,
                                                expires_at |-> second.new_expiration]],
                    oauth2_access_token)
    /\ UNCHANGED << firstVars, oauth2_access_token, now, overlapped >>

\* one answer of the target route to the second call
SecondTargetResponse(res) ==
    /\ second.pc = "target_wait"
    /\ LET e == raise_dropbox_error_for_resp(res)
       IN  CASE e.kind = "AuthError" /\ IsExpiredAccessToken(e) /\ ~second.has_refreshed ->
                  /\ second' = IF RefreshPossible
                               THEN SecondDispatchToken(second, "loop")
                               ELSE SecondDispatchTarget(
                                        [second EXCEPT !.has_refreshed = TRUE],
                                        oauth2_access_token)
                  /\ UNCHANGED now
             [] e.kind = "InternalServerError" /\ RetryOnError(second.attempt + 1) ->
                  \E k \in 0..(RandDen - 1) :
                      LET d == ErrorBackoff(second.attempt + 1, k)
                      IN  /\ now + (d.num \div d.den) <= MaxTime
                          /\ now' = now + (d.num \div d.den)
                          /\ second' = SecondDispatchTarget(
                                           [second EXCEPT !.attempt = @ + 1],
                                           oauth2_access_token)
             [] e.kind = "RateLimitError" /\ RetryOnRateLimit(second.rate_limit_errors + 1)
                  /\ RateLimitBackoff(e) >= 0 ->
                  /\ now + RateLimitBackoff(e) <= MaxTime
                  /\ now' = now + RateLimitBackoff(e)
                  /\ second' = SecondDispatchTarget(
                                   [second EXCEPT !.rate_limit_errors = @ + 1],
                                   oauth2_access_token)
             [] OTHER -> second' = SecondEnd(second) /\ UNCHANGED now
    /\ UNCHANGED << firstVars, oauth2_access_token, oauth2_access_token_expiration,
                    overlapped >>

(***************************************************************************)
(* cam_main: one iteration of the capture loop on a constructed client,    *)
(* its Dropbox calls returning.  The clock may have passed midnight since  *)
(* the iteration before.                                                   *)
(***************************************************************************)
\* one pass of the while loop: outside the timer range nothing is captured;
\* a frame is saved and uploaded, its date folder created when prev_ymd
\* differs from the date; prev_ymd == ymd_str compares and assigns nothing
Iteration(in_range, dark_mode, frame_available, day) ==
    /\ pc = "idle"
    /\ cam.run_timelapse
    /\ day \in {cam.today, cam.today + 1}
    /\ day <= MaxDays
    /\ cam' =
         IF ~in_range THEN [cam EXCEPT !.today = day]
         ELSE IF ~frame_available
         THEN [cam EXCEPT !.today = day, !.prev_dark_mode = dark_mode,
                          !.run_timelapse = (cam.image_count < ListSize)]
         ELSE [cam EXCEPT !.today = day,
                          !.prev_dark_mode = dark_mode,
                          !.image_count = @ + 1,
                          !.ymd_str = day,
                          !.last_ymd = cam.ymd_str,
                          !.dir_checks = IF cam.prev_ymd # day THEN @ + 1 ELSE @,
                          !.create_folder_calls = IF cam.prev_ymd # day THEN @ + 1 ELSE @,
                          !.created = (cam.prev_ymd # day),
                          !.uploads = @ + 1,
                          !.run_timelapse = (cam.image_count + 1 < ListSize)]
    /\ UNCHANGED << pc, credVars, cfgVars, now, calls, callVars, printed, outcome,
                    secondVars >>

\* the caller goes on after a facade call that returned or raised
NextCall ==
    /\ pc = "done"
    /\ calls < MaxCalls
    /\ pc' = "idle"
    /\ UNCHANGED << credVars, cfgVars, now, calls, callVars, printed, outcome,
                    secondVars, camVars >>

NextOf(args, ops, tokenResponses, targetResponses) ==
    \/ \E a \in args : Construct(a)
    \/ \E o \in ops, dt \in Elapsed : Call(o, "overwrite", UploadPath, TRUE, dt)
    \/ \E res \in tokenResponses : TokenResponse(res)
    \/ \E res \in targetResponses : TargetResponse(res)

\* one facade call under every retry policy and every answer of the server
Next == NextOf(PolicyArgs, {"files_get_metadata"}, TokenResponses, TargetResponses)

Spec == Init /\ [][Next]_vars

\* the same credentials with sessions and headers that __init__ rejects
SessionArgs ==
    {CtorArg(at, rt, NoneVal, ak, as, 1, 1, hd, "XiaoCPY1", se) :
        at \in {"None", "T0"}, rt \in BOOLEAN, ak \in BOOLEAN, as \in BOOLEAN,
        hd \in {"None", "notdict"}, se \in {"Session", "None", "other"}}

\* one facade call from every state of the credentials
NextCred ==
    NextOf(CredentialArgs \cup SessionArgs, {"users_get_current_account", "path_exists"},
           TokenResponses, CoreTargetResponses)

SpecCred == Init /\ [][NextCred]_vars

\* clients with and without extra headers and an application agent
RouteArgs ==
    {CtorArg("T0", rt, ex, rt, rt, 1, 1, hd, ua, "Session") :
        rt \in BOOLEAN, ex \in {NeverExpires, Now0 - 10},
        hd \in {"None", "extra", "override"}, ua \in {"None", "XiaoCPY1"}}

\* paths with the characters json.dumps escapes and the ones it separates by
UploadPaths ==
    {UploadPath, << "/", QUOTE, "a" >>, << "/", BACKSLASH, "u" >>,
     << "/", NonAscii >>, << "/", ",", " ", "}" >>}

RouteTargetResponses ==
    {Resp(200, JSON, "rid1", NoHeader, Meta("file")),
     Resp(401, JSON, "rid1", NoHeader, ErrObj("expired_access_token", MissingVal)),
     Resp(409, JSON, "rid1", NoHeader, ErrObj("path", MissingVal)),
     Resp(503, TEXT, "rid1", NoHeader, NotJson),
     Resp(429, TEXT, "rid1", Header(<< "3" >>), NotJson)}

RouteTokenResponses ==
    {Resp(200, JSON, "rid1", NoHeader, TokenBody("A1", 300)),
     Resp(400, JSON, "rid1", NoHeader, ErrStr("invalid_grant"))}

\* every facade operation, with every argument of files_upload, on the two
\* interpreters' json.dumps
NextRoute ==
    \/ \E a \in RouteArgs : Construct(a)
    \/ \E o \in Ops \ {"files_upload"}, dt \in Elapsed :
            Call(o, "None", NoPath, TRUE, dt)
    \/ \E wm \in WriteModes, p \in UploadPaths, ensure_ascii \in BOOLEAN, dt \in Elapsed :
            Call("files_upload", wm, p, ensure_ascii, dt)
    \/ \E res \in RouteTokenResponses : TokenResponse(res)
    \/ \E res \in RouteTargetResponses : TargetResponse(res)

SpecRoute == Init /\ [][NextRoute]_vars

\* a client able to refresh, its token valid or expired
TwoArgs ==
    {CtorArg("T0", TRUE, ex, TRUE, TRUE, 1, 1, "None", "XiaoCPY1", "Session") :
        ex \in {NeverExpires, Now0 - 10}}

TwoTargetResponses ==
    {Resp(200, JSON, "rid1", NoHeader, Meta("file")),
     Resp(401, JSON, "rid1", NoHeader, ErrObj("expired_access_token", MissingVal)),
     Resp(503, TEXT, "rid1", NoHeader, NotJson)}

\* the token endpoint gives every refresh a token and a lifetime of its own
FirstTokenResponses == {Resp(200, JSON, "rid1", NoHeader, TokenBody("A1", 300))}
SecondTokenResponses == {Resp(200, JSON, "rid1", NoHeader, TokenBody("A2", 400))}

\* two calls on one client, one after the other or interleaved
NextTwo ==
    \/ \E a \in TwoArgs : Construct(a)
    \/ \E dt \in Elapsed : Call("files_get_metadata", "None", NoPath, TRUE, dt)
    \/ \E res \in FirstTokenResponses : TokenResponse(res)
    \/ \E res \in TwoTargetResponses : TargetResponse(res)
    \/ SecondCall
    \/ \E res \in SecondTokenResponses : SecondTokenResponse(res)
    \/ SecondStoreExpiry
    \/ \E res \in TwoTargetResponses : SecondTargetResponse(res)

SpecTwo == Init /\ [][NextTwo]_vars

\* a client able to refresh, its expiry absent, zero or far away
SerialArgs ==
    {CtorArg("T0", TRUE, ex, TRUE, TRUE, 1, 1, "None", "XiaoCPY1", "Session") :
        ex \in {NoneVal, 0, NeverExpires}}

SerialTargetResponses ==
    {Resp(200, JSON, "rid1", NoHeader, Meta("file")),
     Resp(401, JSON, "rid1", NoHeader, ErrObj("expired_access_token", MissingVal)),
     Resp(503, TEXT, "rid1", NoHeader, NotJson),
     Resp(429, TEXT, "rid1", Header(<< "1" >>), NotJson)}

SerialTokenResponses ==
    {Resp(200, JSON, "rid1", NoHeader, TokenBody("A1", 300)),
     Resp(200, JSON, "rid1", NoHeader, TokenBody("A2", 400)),
     Resp(200, JSON, "rid1", NoHeader, TokenBody("A1", NoneVal)),
     Resp(200, JSON, "rid1", NoHeader, ErrStr("invalid_grant")),
     Resp(400, JSON, "rid1", NoHeader, ErrStr("invalid_grant")),
     Resp(503, TEXT, "rid1", NoHeader, NotJson)}

\* facade calls made one after the other on one client
NextSerial ==
    \/ \E a \in SerialArgs : Construct(a)
    \/ \E dt \in Elapsed : Call("files_get_metadata", "None", NoPath, TRUE, dt)
    \/ \E res \in SerialTokenResponses : TokenResponse(res)
    \/ \E res \in SerialTargetResponses : TargetResponse(res)
    \/ NextCall

SpecSerial == Init /\ [][NextSerial]_vars

BudgetTargetResponses ==
    {Resp(200, JSON, "rid1", NoHeader, Meta("file")),
     Resp(401, JSON, "rid1", NoHeader, ErrObj("expired_access_token", MissingVal)),
     Resp(400, JSON, "rid1", NoHeader, ErrStr("other")),
     Resp(503, TEXT, "rid1", NoHeader, NotJson),
     Resp(429, TEXT, "rid1", Header(<< "1" >>), NotJson),
     Resp(429, JSON, "rid1", NoHeader, ErrObj("too_many_requests", 0))}

BudgetTokenResponses ==
    {Resp(200, JSON, "rid1", NoHeader, TokenBody("A1", 400)),
     Resp(200, JSON, "rid1", NoHeader, ErrStr("invalid_grant")),
     Resp(503, TEXT, "rid1", NoHeader, NotJson)}

\* one call under every retry policy; session.post returns: every POST is
\* answered
NextBudget == NextOf(PolicyArgs, {"files_get_metadata"}, BudgetTokenResponses,
                     BudgetTargetResponses)

SpecBudget == Init /\ [][NextBudget]_vars /\ WF_vars(NextBudget)

\* the client of cam_main, its token valid, about to expire or expired
CamArgs ==
    {CtorArg("T0", TRUE, ex, TRUE, TRUE, 1, 1, "None", "XiaoCPY1", "Session") :
        ex \in Expirations \ {NoneVal}}

\* the capture loop on its client
NextCam ==
    \/ \E a \in CamArgs : Construct(a)
    \/ \E in_range \in BOOLEAN, dark_mode \in BOOLEAN, frame_available \in BOOLEAN,
          day \in 1..MaxDays :
            Iteration(in_range, dark_mode, frame_available, day)

SpecCam == Init /\ [][NextCam]_vars

(***************************************************************************)
(* Properties                                                              *)
(***************************************************************************)
TokenUrl == "https://" \o API_HOST \o "/oauth2/token"

\* the step is the entry of a facade call
CallStep == pc = "idle" /\ pc' # "idle"

\* the step handles a response of the target route
TargetStep == pc = "target_wait" /\ lastRes' \in TargetResponses \cup CoreTargetResponses

\* the condition of the validity check as the specification words it; the
\* comparison needs an expiry to compare with
RefreshConditionAsWorded(t) ==
    /\ \/ ~TokenSet(oauth2_access_token)
       \/ /\ oauth2_access_token_expiration # NoneVal
          /\ t + TOKEN_EXPIRATION_BUFFER >= oauth2_access_token_expiration
    /\ oauth2_refresh_token
    /\ app_key

\* the same condition with the absent expiry (None or 0) counted as expired
RefreshConditionWithAbsentExpiry(t) ==
    /\ \/ ~TokenSet(oauth2_access_token)
       \/ oauth2_access_token_expiration \in {NoneVal, 0}
       \/ t + TOKEN_EXPIRATION_BUFFER >= oauth2_access_token_expiration
    /\ oauth2_refresh_token
    /\ app_key

\* C1 (as worded): the validity check posts to oauth2/token iff
\* (no access_token or now + 300 >= expiry) and refresh_token and app_key,
\* and otherwise posts nothing there and changes no field.
C1_RefreshIffAsWorded ==
    [][CallStep =>
        /\ (tokenPosts' = 1) <=> RefreshConditionAsWorded(now')
        /\ ~RefreshConditionAsWorded(now') =>
             (tokenPosts' = 0 /\ UNCHANGED credVars)]_vars

\* C1 (amended): the validity check posts to oauth2/token iff
\* (no access_token or expiry absent or now + 300 >= expiry) and
\* refresh_token and app_key; otherwise it posts nothing there, changes no
\* field and the first target POST follows directly.
C1_RefreshIffCondition ==
    [][CallStep =>
        /\ (tokenPosts' = 1 /\ pc' = "token_wait" /\ lastReq'.url = TokenUrl)
             <=> RefreshConditionWithAbsentExpiry(now')
        /\ ~RefreshConditionWithAbsentExpiry(now') =>
             (tokenPosts' = 0 /\ pc' = "target_wait" /\ UNCHANGED credVars)
        /\ UNCHANGED << credVars, printed >>]_vars

\* C1 witness: the check refreshes a client that holds an access token
\* without an expiry
C1_Witness ==
    /\ pc = "token_wait"
    /\ refresh_caller = "check"
    /\ TokenSet(oauth2_access_token)
    /\ oauth2_access_token_expiration = NoneVal

\* the response came from the target route, not from oauth2/token
FromTarget == lastReq.url # TokenUrl /\ lastReq.url # "None"

IsExpiredTokenResp(r) ==
    /\ r.status_code = 401
    /\ r.content_type = JSON
    /\ r.body.json
    /\ r.body.error = "obj"
    /\ r.body.error_tag = "expired_access_token"

IsInvalidGrantResp(r) ==
    r.status_code = 400 /\ r.body.json /\ r.body.error = "invalid_grant"

IsJson2xx(r) ==
    /\ 200 <= r.status_code /\ r.status_code <= 299
    /\ r.content_type = JSON
    /\ r.body.json

\* a 429 response that carries a usable retry_after, or none at all
WellFormed429(r) ==
    /\ r.status_code = 429
    /\ IF r.content_type = JSON
       THEN /\ r.body.json
            /\ r.body.error = "obj"
            /\ (r.body.error_retry_after = NoneVal \/ r.body.error_retry_after >= 0)
       ELSE \/ ~r.retry_after.present
            \/ ParseInt(r.retry_after.text).ok /\ ParseInt(r.retry_after.text).val >= 0

RaisedKind(k) == pc = "done" /\ outcome.type = "raise" /\ outcome.exc.kind = k

C3_ServerErrorRetries ==
    (rate_limit_errors = 0 /\ loopRefreshCalls = 0 /\ tokenPosts = 0) =>
        /\ (pc = "target_wait") =>
              (attempt <= max_retries_on_error /\ targetPosts = attempt + 1
               /\ sleeps = attempt)
        /\ (pc = "done" /\ FromTarget /\ lastRes.status_code >= 500) =>
              (/\ outcome.type = "raise"
               /\ outcome.exc.kind = "InternalServerError"
               /\ attempt = max_retries_on_error + 1
               /\ targetPosts = max_retries_on_error + 1
               /\ sleeps = max_retries_on_error)
        /\ (pc = "done" /\ FromTarget /\ IsJson2xx(lastRes)) =>
              (/\ outcome = Returned(Value("json", lastRes.body, FALSE))
               /\ attempt <= max_retries_on_error
               /\ targetPosts = attempt + 1
               /\ sleeps = attempt)

\* C3 witness: 5xx twice, then 200, under max_retries_on_error = 2
C3_Witness ==
    /\ pc = "done"
    /\ max_retries_on_error = 2
    /\ attempt = 2
    /\ rate_limit_errors = 0
    /\ loopRefreshCalls = 0
    /\ targetPosts = 3
    /\ lastRes.status_code = 200
    /\ outcome = Returned(Value("json", lastRes.body, FALSE))

\* C4: with max_retries_on_rate_limit = M, a 429 of the target route is
\* retried while fewer than M came before and the (M + 1)-th raises
\* RateLimitError (M retries when every answer is 429); with the ceiling
\* None a 429 is always retried and no 429 of the target route ends the call
\* with RateLimitError.
C4_RateLimitRetries ==
    /\ []((RaisedKind("RateLimitError") /\ FromTarget) =>
            /\ max_retries_on_rate_limit # NoneVal
            /\ rate_limit_errors = max_retries_on_rate_limit + 1
            /\ (attempt = 0 /\ loopRefreshCalls = 0) =>
                 (targetPosts = max_retries_on_rate_limit + 1
                  /\ sleeps = max_retries_on_rate_limit))
    /\ [][(TargetStep /\ WellFormed429(lastRes')) =>
            IF max_retries_on_rate_limit = NoneVal
               \/ rate_limit_errors < max_retries_on_rate_limit
            THEN /\ pc' = "target_wait"
                 /\ rate_limit_errors' = rate_limit_errors + 1
                 /\ targetPosts' = targetPosts + 1
                 /\ sleeps' = sleeps + 1
                 /\ UNCHANGED << tokenPosts, attempt >>
            ELSE /\ pc' = "done"
                 /\ outcome'.type = "raise"
                 /\ outcome'.exc.kind = "RateLimitError"
                 /\ UNCHANGED << targetPosts, tokenPosts, sleeps >>]_vars

\* C4 witness: every answer was 429 and the second one ended the call under
\* max_retries_on_rate_limit = 1
C4_Witness ==
    /\ RaisedKind("RateLimitError")
    /\ FromTarget
    /\ max_retries_on_rate_limit = 1
    /\ rate_limit_errors = 2
    /\ attempt = 0
    /\ targetPosts = 2
    /\ sleeps = 1

\* C6 (as worded): a 400 invalid_grant response never ends a call that has
\* not refreshed yet: the executor refreshes and retries instead.
C6_InvalidGrantRefreshes ==
    ~(pc = "done" /\ FromTarget /\ IsInvalidGrantResp(lastRes) /\ ~has_refreshed)

\* C6 (amended): a 400 invalid_grant response of the target route is
\* classified as AuthError('invalid_access_token'), so the call ends with
\* that error on this response: no refresh, no retry, no sleep.
C6_InvalidGrantPropagates ==
    [][(TargetStep /\ IsInvalidGrantResp(lastRes')) =>
        /\ pc' = "done"
        /\ outcome' = Raised(Exc("AuthError", "invalid_access_token", 401, NoneVal,
                                 lastRes'.request_id))
        /\ UNCHANGED << tokenPosts, targetPosts, loopRefreshCalls, sleeps,
                        has_refreshed, credVars >>]_vars

\* C6 witness: the first 400 invalid_grant ended a call that could have
\* refreshed
C6_Witness ==
    /\ RaisedKind("AuthError")
    /\ FromTarget
    /\ IsInvalidGrantResp(lastRes)
    /\ outcome.exc.error = "invalid_access_token"
    /\ ~has_refreshed
    /\ oauth2_refresh_token /\ app_key
    /\ tokenPosts = 0

\* C7: a 403, 404 or 409 response of the target route ends the call on that
\* attempt by returning the raw decoded body: no error, retry, sleep or
\* refresh.
C7_PassThroughReturnsBody ==
    [][(TargetStep /\ lastRes'.status_code \in {403, 404, 409}) =>
        /\ pc' = "done"
        /\ outcome' = Returned(Value("str", lastRes'.body, FALSE))
        /\ UNCHANGED << tokenPosts, targetPosts, loopRefreshCalls, sleeps, now,
                        attempt, rate_limit_errors, has_refreshed, credVars >>]_vars

\* C7 witness: a 409 after one retry was returned as the raw body
C7_Witness ==
    /\ pc = "done"
    /\ lastRes.status_code = 409
    /\ outcome = Returned(Value("str", lastRes.body, FALSE))
    /\ attempt = 1
    /\ targetPosts = 2

\* the error kinds that are never retried
Terminal(e) ==
    \/ e.kind = "AuthError" /\ e.error # "expired_access_token"
    \/ e.kind \in {"BadInputError", "PathRootError", "HttpError"}

\* C8: a target response classified as an Auth variant other than
\* expired_access_token, BadInput, PathRoot or Http ends the call with that
\* error on that attempt, whatever the counters and the refreshed flag: no
\* further target POST, no token POST, no sleep.
C8_TerminalErrorsPropagate ==
    [][(TargetStep /\ Terminal(raise_dropbox_error_for_resp(lastRes'))) =>
        /\ pc' = "done"
        /\ outcome' = Raised(raise_dropbox_error_for_resp(lastRes'))
        /\ UNCHANGED << tokenPosts, targetPosts, loopRefreshCalls, sleeps, now,
                        attempt, rate_limit_errors, has_refreshed, credVars >>]_vars

\* C8 witness: an invalid_access_token answer ended a call that had retried
\* and could still refresh
C8_Witness ==
    /\ RaisedKind("AuthError")
    /\ FromTarget
    /\ outcome.exc.error = "invalid_access_token"
    /\ lastRes.status_code = 401
    /\ attempt > 0
    /\ rate_limit_errors > 0
    /\ ~has_refreshed
    /\ oauth2_refresh_token /\ app_key

\* C5: path_exists returns true when the metadata has .tag file or folder
\* and returns false, without raising, for every other result of the
\* executor: another tag, no tag, and the body passed through for a
\* 403/404/409 answer.
C5_PathExistsNeverRaises ==
    (/\ pc = "done"
     /\ op = "path_exists"
     /\ FromTarget
     /\ (lastRes.status_code \in {403, 404, 409} \/ IsJson2xx(lastRes))) =>
        outcome = Returned(Value("bool", NotJson,
                                 /\ IsJson2xx(lastRes)
                                 /\ lastRes.body.tag \in {"file", "folder"}))

\* the scenario of C9: the call started with access token T0, an expiry
\* ten seconds in the past, a refresh token and an app key
C9Scenario ==
    /\ pc # "idle"
    /\ callStart.access_token = "T0"
    /\ callStart.expiration = callStart.now - 10
    /\ callStart.refresh_token
    /\ callStart.app_key

RefreshedAuthorizations == {"Bearer " \o t : t \in AccessTokens}

\* C9 (as worded): in the scenario the call makes exactly one POST to
\* oauth2/token, and the first POST to the target route carries the
\* refreshed token.
C9_OneTokenPostAsWorded ==
    C9Scenario =>
        /\ tokenPosts = 1
        /\ targetPosts >= 1 => firstAuth \in RefreshedAuthorizations

\* C9 (amended): in the scenario exactly one POST to oauth2/token precedes
\* the first POST to the target route; that POST carries the refreshed token
\* when the token endpoint answered with one and the old token T0 when it
\* answered with an error field; a second POST to oauth2/token follows only
\* an Auth(expired_access_token) answer of the target route.
C9_OneTokenPostFirst ==
    C9Scenario =>
        /\ tokenPosts >= 1
        /\ targetPosts = 0 => tokenPosts = 1
        /\ (pc = "target_wait" /\ targetPosts = 1) =>
              /\ tokenPosts = 1
              /\ lastReq.authorization = firstAuth
              /\ firstAuth = "Bearer " \o oauth2_access_token
              /\ oauth2_access_token =
                    IF lastRes.body.error = "absent" THEN lastRes.body.access_token
                    ELSE "T0"
        /\ tokenPosts <= 1 + loopRefreshCalls
        /\ loopRefreshCalls <= 1

\* C9 witness: the first target POST went out with the refreshed token after
\* one POST to oauth2/token
C9_Witness ==
    /\ C9Scenario
    /\ pc = "target_wait"
    /\ targetPosts = 1
    /\ tokenPosts = 1
    /\ firstAuth = "Bearer A1"
    /\ oauth2_access_token = "A1"

\* C10 (as worded): the validity check runs before every attempt, so when
\* an attempt is dispatched after a sleep with credentials for which the
\* check calls for a refresh, a POST to oauth2/token has been made.
C10_CheckBeforeEveryAttempt ==
    (/\ pc = "target_wait"
     /\ sleeps > 0
     /\ check_and_refresh_access_token(now)
     /\ RefreshPossible) => tokenPosts > 0

\* C10 (amended): the validity check runs once per facade call, before the
\* retry loop: only the step that starts the call makes the check's POST to
\* oauth2/token, and a retry after a backoff or rate-limit sleep dispatches
\* the next attempt with the token fields as they were, even when the token
\* reached its expiry buffer during the sleep.
C10_CheckOncePerCall ==
    /\ [][(tokenPosts' > tokenPosts /\ refresh_caller' = "check") => CallStep]_vars
    /\ [][(TargetStep /\ sleeps' > sleeps) =>
            /\ pc' = "target_wait"
            /\ targetPosts' = targetPosts + 1
            /\ lastReq'.authorization = lastReq.authorization
            /\ UNCHANGED << tokenPosts, credVars >>]_vars

\* C10 witness: an attempt was dispatched after a sleep during which the
\* token reached its expiry buffer, and no POST to oauth2/token was made
C10_Witness ==
    /\ pc = "target_wait"
    /\ sleeps > 0
    /\ tokenPosts = 0
    /\ TokenSet(oauth2_access_token)
    /\ callStart.now + TOKEN_EXPIRATION_BUFFER < oauth2_access_token_expiration
    /\ now + TOKEN_EXPIRATION_BUFFER >= oauth2_access_token_expiration
    /\ RefreshPossible

\* the step handles a response of oauth2/token
TokenStep == pc = "token_wait" /\ lastRes' \in TokenResponses

\* the token endpoint answered with a token, a lifetime and no error field
SuccessfulTokenResp(r) ==
    /\ raise_dropbox_error_for_resp(r).kind = "NoError"
    /\ r.body.json
    /\ r.body.error = "absent"
    /\ r.body.access_token # "None"
    /\ r.body.expires_in \notin {NoneVal, BadVal}

\* the token endpoint answered with a decoded body that has an error field
ErrorFieldTokenResp(r) ==
    /\ raise_dropbox_error_for_resp(r).kind = "NoError"
    /\ r.body.json
    /\ r.body.error # "absent"

\* C11: after a successful refresh (the token endpoint answers with
\* access_token A, expires_in E and no error field) the stored access token
\* is A and the stored expiry is now + E, now being the clock of the refresh.
C11_RefreshSetsTokenAndExpiry ==
    [][(TokenStep /\ SuccessfulTokenResp(lastRes')) =>
        /\ oauth2_access_token' = lastRes'.body.access_token
        /\ oauth2_access_token_expiration' = now + lastRes'.body.expires_in
        /\ UNCHANGED << now, oauth2_refresh_token, app_key, app_secret >>]_vars

\* C11 witness: a call that started with T0 was refreshed to A2 with a
\* lifetime of 400 seconds
C11_Witness ==
    /\ pc = "target_wait"
    /\ tokenPosts = 1
    /\ SuccessfulTokenResp(lastRes)
    /\ lastRes.body.expires_in = 400
    /\ callStart.access_token = "T0"
    /\ oauth2_access_token = "A2"
    /\ oauth2_access_token_expiration = now + 400

\* C12: every refresh that changes the stored access token prints the new
\* token and its new expiry in the same step: in no state of a call does
\* the stored token differ from the one the call started with unless the
\* stored token and expiry are the ones printed.
C12_TokenChangeIsEmitted ==
    (pc \in {"token_wait", "target_wait", "done"}
     /\ oauth2_access_token # callStart.access_token) =>
        printed = [access_token |-> oauth2_access_token,
                   expires_at |-> oauth2_access_token_expiration]

\* C13 (as worded): a refresh never raises: no call ends on the answer of
\* oauth2/token when that answer has a non-success status or an error field.
C13_RefreshNeverRaises ==
    ~(/\ pc = "done"
      /\ lastReq.url = TokenUrl
      /\ outcome.type = "raise"
      /\ (lastRes.status_code >= 300 \/ (lastRes.body.json /\ lastRes.body.error # "absent")))

\* C13 (amended): refresh_access_token returns silently, with the token
\* fields unchanged and nothing printed, only when the answer passes the
\* classifier and its decoded body has an error field; an answer the
\* classifier turns into an error (5xx, 400, 401, 422, 429, other non-2xx)
\* is raised to the caller of the facade, the token fields unchanged too.
C13_RefreshRaisesOrReturns ==
    [][TokenStep =>
        /\ (raise_dropbox_error_for_resp(lastRes').kind # "NoError") =>
              /\ pc' = "done"
              /\ outcome' = Raised(raise_dropbox_error_for_resp(lastRes'))
              /\ UNCHANGED << credVars, printed, tokenPosts, targetPosts, sleeps,
                              attempt, rate_limit_errors >>
        /\ ErrorFieldTokenResp(lastRes') =>
              /\ pc' = "target_wait"
              /\ UNCHANGED << credVars, printed, outcome >>]_vars

\* C13 witness: the token endpoint answered 200 with an error field and the
\* call went on to the target route with the token it started with
C13_Witness ==
    /\ pc = "target_wait"
    /\ tokenPosts = 1
    /\ targetPosts = 1
    /\ lastRes.status_code = 200
    /\ ErrorFieldTokenResp(lastRes)
    /\ callStart.access_token = "T0"
    /\ oauth2_access_token = "T0"
    /\ oauth2_access_token_expiration = callStart.expiration
    /\ printed = NoPrint

\* C14: when the refresh made after Auth(expired_access_token) fails
\* silently (the token answer has an error field), the loop sends the next
\* attempt with the unchanged access token, and a second
\* Auth(expired_access_token) ends the call with that AuthError: the loop
\* never goes back to the refresh.
C14_SilentRefreshThenAuthError ==
    /\ [][(TokenStep /\ refresh_caller = "loop" /\ ErrorFieldTokenResp(lastRes')) =>
            /\ pc' = "target_wait"
            /\ has_refreshed'
            /\ targetPosts' = targetPosts + 1
            /\ lastReq'.authorization = "Bearer " \o oauth2_access_token
            /\ UNCHANGED << credVars, tokenPosts, loopRefreshCalls >>]_vars
    /\ [][(TargetStep /\ has_refreshed /\ IsExpiredTokenResp(lastRes')) =>
            /\ pc' = "done"
            /\ outcome' = Raised(raise_dropbox_error_for_resp(lastRes'))
            /\ outcome'.exc.kind = "AuthError"
            /\ UNCHANGED << credVars, tokenPosts, targetPosts, loopRefreshCalls >>]_vars
    /\ [](tokenPosts <= 1 + loopRefreshCalls /\ loopRefreshCalls <= 1)

\* C14 witness: after a refresh that failed silently the second
\* Auth(expired_access_token) ended the call, the token unchanged
C14_Witness ==
    /\ RaisedKind("AuthError")
    /\ FromTarget
    /\ outcome.exc.error = "expired_access_token"
    /\ has_refreshed
    /\ tokenPosts = 1
    /\ targetPosts = 2
    /\ oauth2_access_token = callStart.access_token
    /\ printed = NoPrint

\* a response shaped as the server documents it for its status
WellFormedResp(r) ==
    CASE r.status_code = 400 -> ~r.body.json \/ r.body.error # "absent"
      [] r.status_code = 401 ->
            /\ r.content_type = JSON
            /\ r.body.json
            /\ r.body.error = "obj"
            /\ r.body.error_tag # "absent"
      [] r.status_code = HTTP_STATUS_INVALID_PATH_ROOT ->
            r.body.json /\ r.body.error # "absent"
      [] r.status_code = 429 -> WellFormed429(r)
      [] 200 <= r.status_code /\ r.status_code <= 299 -> IsJson2xx(r)
      [] OTHER -> TRUE

\* the statuses the table has no row of their own for
OtherStatus(st) ==
    /\ st < 500
    /\ st \notin {400, 401, HTTP_STATUS_INVALID_PATH_ROOT, 429, 403, 404, 409}
    /\ ~(200 <= st /\ st <= 299)

\* the error of a well-formed response r is e, as the table of the
\* classifier has it (the rows of 429 and of 400 invalid_grant apart)
AsTheTable(r, e) ==
    LET st == r.status_code
    IN  /\ st >= 500 =>
              /\ e.kind = "InternalServerError"
              /\ e.status_code = st
              /\ e.body = r.body
        /\ st = 401 => (e.kind = "AuthError" /\ e.error = r.body.error_tag)
        /\ st = HTTP_STATUS_INVALID_PATH_ROOT =>
              (e.kind = "PathRootError" /\ e.error = ErrorValue(r.body))
        /\ (st = 400 /\ ~IsInvalidGrantResp(r)) =>
              /\ e.kind = "BadInputError"
              /\ e.status_code = 400
              /\ e.body = r.body
        /\ OtherStatus(st) =>
              /\ e.kind = "HttpError"
              /\ e.status_code = st
              /\ e.body = r.body
        /\ (st \in {403, 404, 409} \/ (200 <= st /\ st <= 299)) => e = NoError
        /\ e.kind # "NoError" => e.request_id = r.request_id

\* C15: for well-formed responses the classifier follows its table: 5xx is
\* InternalServerError; 401 is AuthError with the tag of body.error; 422 is
\* PathRootError with body.error; 2xx is a success returning the JSON body;
\* 403/404/409 pass through; every other status (1xx, 3xx, other 4xx) is
\* HttpError with the status and the body; 400 without invalid_grant is
\* BadInputError.
C15_ClassifierTable ==
    [][(TargetStep /\ WellFormedResp(lastRes')) =>
        /\ AsTheTable(lastRes', raise_dropbox_error_for_resp(lastRes'))
        /\ (200 <= lastRes'.status_code /\ lastRes'.status_code <= 299) =>
              outcome' = Returned(Value("json", lastRes'.body, FALSE))
        /\ lastRes'.status_code \in {403, 404, 409} =>
              outcome' = Returned(Value("str", lastRes'.body, FALSE))
        /\ (pc' = "done" /\ outcome'.type = "raise") =>
              outcome'.exc = raise_dropbox_error_for_resp(lastRes')]_vars

\* C15 witness: a 302 answer ended the call with HttpError carrying the
\* status and the body
C15_Witness ==
    /\ RaisedKind("HttpError")
    /\ FromTarget
    /\ lastRes.status_code = 302
    /\ outcome.exc.status_code = 302
    /\ outcome.exc.body = lastRes.body
    /\ outcome.exc.request_id = lastRes.request_id

\* C16: the classifier is total: whatever the status, the content type, the
\* body and the retry-after header of a response of the target route, a call
\* that ends by raising ends with one of the typed errors, never with a
\* fault outside that set.
C16_ClassifierTotal ==
    (pc = "done" /\ FromTarget /\ outcome.type = "raise") =>
        outcome.exc.kind \in HttpErrorKinds

\* __init__ was given one of the credentials
CredentialGiven(a) ==
    \/ TokenSet(a.oauth2_access_token)
    \/ a.oauth2_refresh_token
    \/ (a.app_key /\ a.app_secret)

\* __init__ was given a session and headers it takes
SessionGiven(a) == a.session = "Session" /\ a.headers # "notdict"

\* C17 (as worded): construction fails when none of access_token,
\* refresh_token, (app_key and app_secret) is given, and does not fail on
\* the credentials whenever one of them is given.
C17_AnyCredentialSuffices ==
    pc # "new" =>
        /\ ~CredentialGiven(ctorArgs) => pc = "ctor_failed"
        /\ (CredentialGiven(ctorArgs) /\ SessionGiven(ctorArgs)) => pc # "ctor_failed"

\* C17 (amended): construction fails with no client when none of
\* access_token, refresh_token, (app_key and app_secret) is given, and also
\* when a refresh_token is given without an app_key; with a session and
\* headers it takes, it succeeds in every other case and stores what it was
\* given.
C17_ConstructionChecks ==
    pc # "new" =>
        /\ pc = "ctor_failed" <=>
              \/ ~CredentialGiven(ctorArgs)
              \/ (ctorArgs.oauth2_refresh_token /\ ~ctorArgs.app_key)
              \/ ~SessionGiven(ctorArgs)
        /\ pc = "ctor_failed" =>
              /\ oauth2_access_token = "None"
              /\ ~oauth2_refresh_token /\ ~app_key /\ ~app_secret
              /\ calls = 0 /\ tokenPosts = 0 /\ targetPosts = 0
        /\ pc # "ctor_failed" =>
              /\ oauth2_refresh_token = ctorArgs.oauth2_refresh_token
              /\ app_key = ctorArgs.app_key
              /\ app_secret = ctorArgs.app_secret
        /\ pc = "idle" =>
              /\ oauth2_access_token = ctorArgs.oauth2_access_token
              /\ oauth2_access_token_expiration = ctorArgs.oauth2_access_token_expiration

\* C17 witness: construction failed although an access token and a refresh
\* token were given, the app key missing
C17_Witness ==
    /\ pc = "ctor_failed"
    /\ TokenSet(ctorArgs.oauth2_access_token)
    /\ ctorArgs.oauth2_refresh_token
    /\ ~ctorArgs.app_key
    /\ SessionGiven(ctorArgs)

\* C18: construction rejects a refresh_token without app_key, so every
\* constructed client with a refresh_token has an app_key, and
\* refresh_access_token sends a POST to oauth2/token only with both: called
\* without one of them it returns with no POST and nothing changed.
C18_RefreshNeedsTokenAndKey ==
    /\ []((ctorArgs.oauth2_refresh_token /\ ~ctorArgs.app_key) => pc = "ctor_failed")
    /\ [](oauth2_refresh_token => app_key)
    /\ [][tokenPosts' > tokenPosts => (oauth2_refresh_token /\ app_key)]_vars
    /\ [][(loopRefreshCalls' > loopRefreshCalls
            /\ ~(oauth2_refresh_token /\ app_key)) =>
             UNCHANGED << tokenPosts, credVars, printed >>]_vars

\* C18 witness: the loop called refresh_access_token on a client with an
\* app key and no refresh token, and no POST to oauth2/token was made
C18_Witness ==
    /\ pc = "target_wait"
    /\ loopRefreshCalls = 1
    /\ has_refreshed
    /\ tokenPosts = 0
    /\ ~oauth2_refresh_token
    /\ app_key

\* the call started on a client with no access token that cannot refresh
NoTokenNoRefresh ==
    /\ pc \in {"token_wait", "target_wait", "done"}
    /\ callStart.access_token = "None"
    /\ ~(callStart.refresh_token /\ callStart.app_key)

IsAuthResp(r) == r.status_code = 401 /\ WellFormedResp(r)

\* C19 (as worded): with no access token and no way to refresh, the
\* validity check fails with AuthError before any request is dispatched to
\* the target route.
C19_NoTokenFailsBeforeDispatch ==
    NoTokenNoRefresh =>
        /\ targetPosts = 0
        /\ pc = "done"
        /\ outcome.type = "raise"
        /\ outcome.exc.kind = "AuthError"

\* C19 (amended): with no access token and no way to refresh, the validity
\* check returns without an error and without a POST to oauth2/token, and
\* the request is dispatched to the target route with the Authorization
\* header "Bearer None".
C19_NoTokenIsDispatched ==
    [][(CallStep /\ ~TokenSet(oauth2_access_token) /\ ~RefreshPossible) =>
        /\ pc' = "target_wait"
        /\ targetPosts' = 1
        /\ tokenPosts' = 0
        /\ lastReq'.url # TokenUrl
        /\ lastReq'.authorization = "Bearer None"
        /\ UNCHANGED << credVars, outcome, printed >>]_vars

\* C19 witness: a client built from app_key and app_secret alone has its
\* first request on the way to the target route
C19_Witness ==
    /\ NoTokenNoRefresh
    /\ pc = "target_wait"
    /\ app_key /\ app_secret /\ ~oauth2_refresh_token
    /\ targetPosts = 1
    /\ tokenPosts = 0
    /\ firstAuth = "Bearer None"

\* C20 (as worded): with no access token and no way to refresh, the call
\* makes no POST to oauth2/token, and the 401 answer to its first target
\* POST ends it with the AuthError of that answer, after exactly one target
\* POST.
C20_NoTokenOnePost ==
    [][(TargetStep /\ NoTokenNoRefresh /\ targetPosts = 1 /\ IsAuthResp(lastRes')) =>
        /\ pc' = "done"
        /\ outcome' = Raised(raise_dropbox_error_for_resp(lastRes'))
        /\ targetPosts' = 1
        /\ tokenPosts' = 0]_vars

\* C20 (amended): with no access token and no way to refresh, the call
\* makes no POST to oauth2/token; a 401 answer to its first target POST ends
\* it with the AuthError of that answer after exactly one target POST,
\* unless the tag is expired_access_token: then the loop calls
\* refresh_access_token, which does nothing, sends the request once more, and
\* a second 401 ends the call after two target POSTs.
C20_NoTokenAuthError ==
    /\ [](NoTokenNoRefresh => (tokenPosts = 0 /\ oauth2_access_token = "None"))
    /\ [][(TargetStep /\ NoTokenNoRefresh /\ IsAuthResp(lastRes')) =>
            IF IsExpiredTokenResp(lastRes') /\ ~has_refreshed
            THEN /\ pc' = "target_wait"
                 /\ has_refreshed'
                 /\ targetPosts' = targetPosts + 1
                 /\ lastReq'.authorization = "Bearer None"
            ELSE /\ pc' = "done"
                 /\ outcome' = Raised(raise_dropbox_error_for_resp(lastRes'))
                 /\ outcome'.exc.kind = "AuthError"
                 /\ UNCHANGED targetPosts]_vars
    /\ []((NoTokenNoRefresh /\ attempt = 0 /\ rate_limit_errors = 0) =>
            targetPosts = IF has_refreshed THEN 2 ELSE 1)

\* C20 witness: the 401 answer to the only target POST ended the call of a
\* client with no token and no way to refresh
C20_Witness ==
    /\ NoTokenNoRefresh
    /\ RaisedKind("AuthError")
    /\ outcome.exc.error = "invalid_access_token"
    /\ targetPosts = 1
    /\ tokenPosts = 0
    /\ lastReq.authorization = "Bearer None"

\* the retry_after a 429 response specifies: the member of body.error when
\* the content type is JSON, else the integer of the retry-after header;
\* NoneVal when it specifies none
RetryAfterOf(r) ==
    IF r.content_type = JSON THEN r.body.error_retry_after
    ELSE IF r.retry_after.present THEN ParseInt(r.retry_after.text).val
    ELSE NoneVal

\* C21: the sleep before a rate-limit retry is the retry_after of the 429
\* response (body.error.retry_after for a JSON response, else the integer
\* of the retry-after header) and 5 seconds when the response specifies
\* none; no sleep is taken when the rate-limit ceiling is exceeded.
C21_RateLimitSleep ==
    [][(TargetStep /\ WellFormed429(lastRes')) =>
        IF max_retries_on_rate_limit = NoneVal
           \/ rate_limit_errors + 1 <= max_retries_on_rate_limit
        THEN /\ sleeps' = sleeps + 1
             /\ lastSleep' =
                   [num |-> IF RetryAfterOf(lastRes') = NoneVal THEN DEFAULT_BACKOFF
                            ELSE RetryAfterOf(lastRes'),
                    den |-> 1]
             /\ now' = now + lastSleep'.num
             /\ pc' = "target_wait"
        ELSE /\ UNCHANGED << sleeps, lastSleep, now >>
             /\ pc' = "done"]_vars

\* C21 witness: a 429 with no retry-after header and no JSON body was
\* retried after a sleep of 5 seconds
C21_Witness ==
    /\ pc = "target_wait"
    /\ lastRes.status_code = 429
    /\ lastRes.content_type # JSON
    /\ ~lastRes.retry_after.present
    /\ rate_limit_errors = 1
    /\ sleeps = 1
    /\ lastSleep = [num |-> DEFAULT_BACKOFF, den |-> 1]
    /\ now = callStart.now + DEFAULT_BACKOFF

\* the step hands a request to a target route
DispatchStep == targetPosts' = targetPosts + 1

\* C22: every attempt of files_upload carries a Dropbox-API-Arg header that
\* json.loads decodes to exactly path, mode, autorename true, mute false and
\* strict_conflict false, with Content-Type application/octet-stream and
\* the payload as the body
C22_UploadHeader ==
    [][(DispatchStep /\ op' = "files_upload") =>
         /\ loads(lastReq'.api_arg).ok
         /\ loads(lastReq'.api_arg).val =
               {StrMember(Chars("path"), path'), StrMember(Chars("mode"), Chars(writemode')),
                BoolMember(Chars("autorename"), TRUE), BoolMember(Chars("mute"), FALSE),
                BoolMember(Chars("strict_conflict"), FALSE)}
         /\ writemode' \in WriteModes
         /\ lastReq'.content_type = "application/octet-stream"
         /\ lastReq'.data = "file"
         /\ lastReq'.json = "None"]_vars

\* a retried upload of a path with a double quote, the header escaping it
C22_Witness ==
    /\ op = "files_upload"
    /\ path = << "/", QUOTE, "a" >>
    /\ writemode = "update"
    /\ targetPosts = 2
    /\ lastReq.api_arg[12] = BACKSLASH
    /\ lastReq.api_arg[13] = QUOTE
    /\ Cardinality(loads(lastReq.api_arg).val) = 5
    /\ lastReq.data = "file"

\* the step posts to the token endpoint
TokenPostStep == tokenPosts' = tokenPosts + 1

\* the url of each operation by the route table, written out
RouteTableUrl(o) ==
    CASE o = "users_get_current_account" ->
            "https://api.dropboxapi.com/2/users/get_current_account"
      [] o = "files_list_folder" -> "https://api.dropboxapi.com/2/files/list_folder"
      [] o \in {"files_get_metadata", "path_exists"} ->
            "https://api.dropboxapi.com/2/files/get_metadata"
      [] o = "files_create_folder" -> "https://api.dropboxapi.com/2/files/create_folder_v2"
      [] o = "files_upload" -> "https://content.dropboxapi.com/2/files/upload"

\* C23 as worded: every request, the token refresh included, goes to
\* https://{host}/2/{path} with the host and path of the route table
C23_EveryUrlVersioned ==
    [][/\ DispatchStep => lastReq'.url = RouteTableUrl(op')
       /\ TokenPostStep => lastReq'.url = "https://api.dropboxapi.com/2/oauth2/token"]_vars

\* C23: every request of a facade operation goes to https://{host}/2/{path}
\* with the host and path of the route table; the token refresh goes to
\* https://api.dropboxapi.com/oauth2/token, without the version segment
C23_RouteUrls ==
    [][/\ DispatchStep => lastReq'.url = RouteTableUrl(op')
       /\ TokenPostStep => lastReq'.url = "https://api.dropboxapi.com/oauth2/token"]_vars

\* an upload whose validity check posts to the token endpoint
C23_Witness ==
    /\ op = "files_upload"
    /\ pc = "token_wait"
    /\ tokenPosts = 1
    /\ targetPosts = 0
    /\ lastReq.url = "https://api.dropboxapi.com/oauth2/token"

\* the operations the route table gives the RPC style
RpcOps == {"users_get_current_account", "files_list_folder", "files_get_metadata",
           "files_create_folder"}

\* C24 as worded: every attempt of an RPC-style operation carries
\* Content-Type application/json and a JSON body
C24_EveryRpcSendsJson ==
    [][(DispatchStep /\ op' \in RpcOps) =>
         lastReq'.content_type = "application/json" /\ lastReq'.json = "params"]_vars

\* C24: every attempt of list_folder, get_metadata (also under path_exists)
\* and create_folder carries Content-Type application/json and a JSON body;
\* every attempt of get_current_account carries neither a Content-Type
\* header nor a body
C24_RpcEncoding ==
    [][DispatchStep =>
         /\ op' \in (RpcOps \cup {"path_exists"}) \ {"users_get_current_account"} =>
               /\ lastReq'.content_type = "application/json"
               /\ lastReq'.json = "params"
               /\ lastReq'.data = "None"
         /\ op' = "users_get_current_account" =>
               /\ lastReq'.content_type = "None"
               /\ lastReq'.json = "None"
               /\ lastReq'.data = "None"]_vars

\* a retried get_current_account, sent without Content-Type and body
C24_Witness ==
    /\ op = "users_get_current_account"
    /\ targetPosts = 2
    /\ pc = "target_wait"
    /\ lastReq.url = RouteTableUrl("users_get_current_account")
    /\ lastReq.content_type = "None"
    /\ lastReq.json = "None"

\* C25 as worded: every attempt to a target route carries Authorization:
\* Bearer <t>, t the token held at dispatch, and a User-Agent; the retry
\* after a successful refresh carries the new token
C25_BearerOnEveryAttempt ==
    [][DispatchStep =>
         /\ lastReq'.authorization = "Bearer " \o oauth2_access_token'
         /\ lastReq'.user_agent \in {USER_AGENT, "XiaoCPY1/" \o USER_AGENT}
         /\ (TokenStep /\ SuccessfulTokenResp(lastRes')) =>
               lastReq'.authorization = "Bearer " \o lastRes'.body.access_token]_vars

\* C25: unless the headers given to the constructor name Authorization or
\* User-Agent, every attempt to a target route carries Authorization:
\* Bearer <t>, t the token held at dispatch, and the client's User-Agent,
\* and the retry after a successful refresh carries the new token; headers
\* of the constructor that name them replace both on every attempt
C25_BearerUnlessOverridden ==
    [][DispatchStep =>
         IF custom_headers # "override"
         THEN /\ lastReq'.authorization = "Bearer " \o oauth2_access_token'
              /\ lastReq'.user_agent \in {USER_AGENT, "XiaoCPY1/" \o USER_AGENT}
              /\ lastReq'.user_agent = user_agent
              /\ (TokenStep /\ SuccessfulTokenResp(lastRes')) =>
                    lastReq'.authorization = "Bearer " \o lastRes'.body.access_token
         ELSE /\ lastReq'.authorization = "Basic override"
              /\ lastReq'.user_agent = "agent override"]_vars

\* the retry after the refresh that followed 401 expired_access_token
C25_Witness ==
    /\ custom_headers = "extra"
    /\ has_refreshed
    /\ tokenPosts = 1
    /\ targetPosts = 2
    /\ firstAuth = "Bearer T0"
    /\ oauth2_access_token = "A1"
    /\ lastReq.authorization = "Bearer A1"
    /\ lastReq.user_agent = "XiaoCPY1/" \o USER_AGENT

\* C26: every typed error the classifier produces from a response, and the
\* one a call finally propagates (also after its retries are exhausted),
\* carries the x-dropbox-request-id of that same response, None when the
\* header is absent
C26_ErrorsCarryRequestId ==
    /\ raise_dropbox_error_for_resp(lastRes).kind \in HttpErrorKinds =>
          raise_dropbox_error_for_resp(lastRes).request_id = lastRes.request_id
    /\ (pc = "done" /\ outcome.type = "raise" /\ outcome.exc.kind \in HttpErrorKinds) =>
          outcome.exc.request_id = lastRes.request_id

\* the server error propagated after the last retry, the answers before it
\* without a request id
C26_Witness ==
    /\ RaisedKind("InternalServerError")
    /\ max_retries_on_error = MaxRetriesOnError
    /\ attempt = max_retries_on_error + 1
    /\ lastRes.status_code = 503
    /\ lastRes.request_id = "rid1"
    /\ outcome.exc.request_id = "rid1"

\* C28: after construction the stored access token and its expiry change
\* only in a step that handles a successful answer of oauth2/token; every
\* other step leaves them unchanged, and no step changes the refresh token,
\* the app key or the app secret
C28_OnlyRefreshWritesToken ==
    [][pc # "new" =>
         /\ (oauth2_access_token' # oauth2_access_token
               \/ oauth2_access_token_expiration' # oauth2_access_token_expiration) =>
                 (TokenStep /\ SuccessfulTokenResp(lastRes'))
         /\ UNCHANGED << oauth2_refresh_token, app_key, app_secret >>]_vars

\* C29: the sleep before the k-th server-error retry of a call, k the number
\* of 5xx answers received so far in the call and at most
\* max_retries_on_error, is at least 0 and less than 2^k seconds
C29_ServerErrorBackoff ==
    [][(TargetStep /\ FromTarget /\ lastRes'.status_code >= 500
          /\ attempt + 1 <= max_retries_on_error) =>
         /\ attempt' = attempt + 1
         /\ sleeps' = sleeps + 1
         /\ pc' = "target_wait"
         /\ lastSleep'.den > 0
         /\ lastSleep'.num >= 0
         /\ lastSleep'.num < (2 ^ attempt') * lastSleep'.den]_vars

\* the second retry of a call sleeping 2 of the 4 seconds it may not reach
C29_Witness ==
    /\ pc = "target_wait"
    /\ lastRes.status_code >= 500
    /\ attempt = 2
    /\ sleeps = 2
    /\ targetPosts = 3
    /\ lastSleep = [num |-> 4, den |-> 2]

\* C30: the refresh and retry on 401 expired_access_token, from the answer
\* to the next attempt, leaves the server-error counter and the rate-limit
\* counter unchanged and takes no sleep; after it 5xx and 429 answers are
\* retried up to the same ceilings as before it
C30_RefreshKeepsBudgets ==
    [][/\ ((TargetStep /\ FromTarget /\ IsExpiredTokenResp(lastRes') /\ ~has_refreshed)
            \/ (TokenStep /\ refresh_caller = "loop")) =>
               UNCHANGED << attempt, rate_limit_errors, sleeps, lastSleep, now >>
       /\ (TargetStep /\ FromTarget /\ IsExpiredTokenResp(lastRes') /\ ~has_refreshed) =>
               pc' \in {"token_wait", "target_wait"}
       /\ (TargetStep /\ FromTarget /\ has_refreshed /\ lastRes'.status_code >= 500
              /\ attempt < max_retries_on_error) =>
               pc' = "target_wait" /\ attempt' = attempt + 1
       /\ (TargetStep /\ FromTarget /\ has_refreshed /\ WellFormed429(lastRes')
              /\ (max_retries_on_rate_limit = NoneVal
                    \/ rate_limit_errors < max_retries_on_rate_limit)) =>
               pc' = "target_wait" /\ rate_limit_errors' = rate_limit_errors + 1]_vars

\* a call that refreshed and used both budgets in full: one attempt, the
\* retry after the refresh, and one retry per 5xx and 429 answer
C30_Witness ==
    /\ pc = "target_wait"
    /\ has_refreshed
    /\ tokenPosts = 1
    /\ lastReq.authorization = "Bearer A1"
    /\ max_retries_on_error = MaxRetriesOnError
    /\ attempt = max_retries_on_error
    /\ max_retries_on_rate_limit = MaxRetriesOnRateLimit
    /\ rate_limit_errors = max_retries_on_rate_limit
    /\ sleeps = attempt + rate_limit_errors
    /\ targetPosts = 2 + attempt + rate_limit_errors

\* an attempt in flight carries a token that is no longer the client's
StaleInFlight ==
    \/ pc = "target_wait" /\ lastReq.authorization # "Bearer " \o oauth2_access_token
    \/ second.pc = "target_wait"
          /\ second.authorization # "Bearer " \o oauth2_access_token

\* both calls posted to oauth2/token and the stored token is the one of one
\* refresh, the stored expiry the one of the other
MixedRefresh ==
    /\ tokenPosts > 0
    /\ second.tokenPosts > 0
    /\ printed # NoPrint
    /\ second.printed # NoPrint
    /\ printed.access_token # second.printed.access_token
    /\ printed.expires_at # second.printed.expires_at
    /\ \/ /\ oauth2_access_token = printed.access_token
          /\ oauth2_access_token_expiration = second.printed.expires_at
       \/ /\ oauth2_access_token = second.printed.access_token
          /\ oauth2_access_token_expiration = printed.expires_at

InconsistentTokens == StaleInFlight \/ MixedRefresh

\* C27: a state in which an attempt in flight carries a token the other
\* call has replaced, or in which the stored token and expiry come from
\* different refreshes, is reached only when one call began while the other
\* was running; calls made one at a time never reach it
C27_InconsistentOnlyWhenInterleaved == InconsistentTokens => overlapped

\* the first call's attempt in flight with the token the second replaced
C27_Witness ==
    /\ overlapped
    /\ pc = "target_wait"
    /\ lastReq.authorization = "Bearer T0"
    /\ second.has_refreshed
    /\ second.pc = "target_wait"
    /\ second.authorization = "Bearer A2"
    /\ oauth2_access_token = "A2"
    /\ StaleInFlight

\* C31: every call starts its loop with both counters at 0 and the
\* refreshed flag false, whatever the call before it left: also after a
\* call that used up its retries or refreshed
C31_FreshAttemptState ==
    [][CallStep =>
         /\ attempt' = 0
         /\ rate_limit_errors' = 0
         /\ has_refreshed' = FALSE
         /\ sleeps' = 0]_vars

\* a second call, after one whose refresh printed a token, that refreshed
\* in its loop and used its server-error retry in full
C31_Witness ==
    /\ calls = 2
    /\ pc = "target_wait"
    /\ callStart.access_token # "T0"
    /\ has_refreshed
    /\ tokenPosts >= 1
    /\ attempt = max_retries_on_error
    /\ rate_limit_errors = max_retries_on_rate_limit

\* C32: in the capture loop the remote date folder is created, and the
\* local directory checked, only when the date changes: a capture with the
\* date of the capture before it makes neither call
C32_FolderOncePerDate ==
    cam.last_ymd # NoDate /\ cam.last_ymd = cam.ymd_str => ~cam.created

FiniteCeilings == max_retries_on_rate_limit # NoneVal

\* C33: with both ceilings finite a call ends, whatever the answers, after
\* at most max_retries_on_error + max_retries_on_rate_limit + 2 POSTs to
\* the target route; within a call neither counter ever goes down, so a
\* 5xx answer arriving when max_retries_on_error were already counted ends
\* the call whatever came between them
C33_BoundedRetries ==
    /\ [](FiniteCeilings =>
            /\ targetPosts <= max_retries_on_error + max_retries_on_rate_limit + 2
            /\ attempt <= max_retries_on_error + 1
            /\ rate_limit_errors <= max_retries_on_rate_limit + 1)
    /\ [][(pc \in {"token_wait", "target_wait"}) =>
            /\ attempt' >= attempt
            /\ rate_limit_errors' >= rate_limit_errors
            /\ (has_refreshed => has_refreshed')
            /\ (TargetStep /\ lastRes'.status_code >= 500
                  /\ attempt = max_retries_on_error) => pc' = "done"]_vars
    /\ ((FiniteCeilings /\ pc \in {"token_wait", "target_wait"}) ~> pc = "done")

\* the longest call: a first attempt, the retry after a refresh, and every
\* retry the two ceilings allow, 5xx and 429 answers alternating
C33_Witness ==
    /\ pc = "done"
    /\ max_retries_on_error = MaxRetriesOnError
    /\ max_retries_on_rate_limit = MaxRetriesOnRateLimit
    /\ has_refreshed
    /\ targetPosts = max_retries_on_error + max_retries_on_rate_limit + 2
    /\ attempt = max_retries_on_error
    /\ rate_limit_errors = max_retries_on_rate_limit + 1
    /\ RaisedKind("RateLimitError")

\* C34: the stored token and its expiry are updated together: a step that
\* handles an answer of oauth2/token, whether the refresh returns or raises,
\* either stores the token and the expiry of that answer or leaves both as
\* they were
C34_TokenAndExpiryTogether ==
    [][TokenStep =>
         \/ UNCHANGED << oauth2_access_token, oauth2_access_token_expiration >>
         \/ /\ oauth2_access_token' = lastRes'.body.access_token
            /\ lastRes'.body.expires_in \notin {NoneVal, BadVal}
            /\ oauth2_access_token_expiration' = now + lastRes'.body.expires_in]_vars

\* C35: an answer of oauth2/token that the classifier turns into a typed
\* error ends the call in that step with that error, for the refresh of the
\* validity check and for the one of the loop: no counter changes, no sleep
\* is taken and no further POST is sent
C35_TokenErrorEndsCall ==
    [][(TokenStep /\ raise_dropbox_error_for_resp(lastRes').kind \in HttpErrorKinds) =>
         /\ pc' = "done"
         /\ outcome'.type = "raise"
         /\ outcome'.exc = raise_dropbox_error_for_resp(lastRes')
         /\ UNCHANGED << attempt, rate_limit_errors, has_refreshed, sleeps, lastSleep, now,
                         tokenPosts, targetPosts, credVars >>]_vars

\* the loop's refresh answered 500: the call ends with that server error,
\* its retries unused
C35_Witness ==
    /\ RaisedKind("InternalServerError")
    /\ lastReq.url = TokenUrl
    /\ refresh_caller = "loop"
    /\ max_retries_on_error >= 1
    /\ attempt = 0
    /\ sleeps = 0
    /\ tokenPosts = 1
    /\ targetPosts = 1
    /\ ~has_refreshed

\* the request with its Authorization header set aside
SameButAuthorization(r, q) == [r EXCEPT !.authorization = q.authorization] = q

\* C36: every attempt of a call after the first passes the url, the data
\* object, the json object and the other headers of the attempt before it;
\* only the Authorization value differs, and only when the stored token was
\* replaced since the call began
C36_SameRequestOnRetry ==
    [][(DispatchStep /\ targetPosts >= 1) =>
         /\ lastReq.url # TokenUrl => SameButAuthorization(lastReq, lastReq')
         /\ lastReq'.url = OpUrl(op)
         /\ lastReq'.data = OpData(op)
         /\ lastReq'.json = OpJson(op)
         /\ lastReq'.content_type = OpContentType(op)
         /\ lastReq'.api_arg = api_arg
         /\ UNCHANGED << op, api_arg, path, writemode >>
         /\ lastReq'.authorization # firstAuth =>
               /\ oauth2_access_token' # callStart.access_token
               /\ tokenPosts' >= 1]_vars

\* the upload posted a third time, after a 5xx answer and a refresh, with
\* the file and the header of the first attempt and the new token
C36_Witness ==
    /\ op = "files_upload"
    /\ pc = "target_wait"
    /\ targetPosts = 3
    /\ attempt = 1
    /\ has_refreshed
    /\ lastReq.data = "file"
    /\ lastReq.api_arg = dumps(UploadArg(UploadPath, "add"), TRUE)
    /\ firstAuth = "Bearer T0"
    /\ lastReq.authorization = "Bearer A1"

\* C37: one facade call posts to oauth2/token at most twice: at most once
\* for its validity check, when the call begins, and at most once from the
\* loop, on an expired_access_token 401 while has_refreshed is FALSE; the
\* refresh of the validity check leaves has_refreshed FALSE
C37_AtMostTwoTokenPosts ==
    /\ [](tokenPosts <= 2 /\ loopRefreshCalls <= 1)
    /\ [][CallStep =>
            /\ tokenPosts' <= 1
            /\ tokenPosts' = 1 => refresh_caller' = "check" /\ pc' = "token_wait"]_vars
    /\ [][(~CallStep /\ tokenPosts' # tokenPosts) =>
            /\ tokenPosts' = tokenPosts + 1
            /\ loopRefreshCalls' = 1
            /\ refresh_caller' = "loop"
            /\ pc = "target_wait"
            /\ IsExpiredTokenResp(lastRes')
            /\ ~has_refreshed]_vars
    /\ [][(pc = "token_wait" /\ refresh_caller = "check") =>
            has_refreshed' = FALSE]_vars

\* the second call on the client refreshed for its validity check, got an
\* expired_access_token 401 and refreshed again from the loop
C37_Witness ==
    /\ calls = 2
    /\ pc = "target_wait"
    /\ tokenPosts = 2
    /\ loopRefreshCalls = 1
    /\ targetPosts = 2
    /\ has_refreshed
    /\ lastReq.authorization # firstAuth

\* C38: a call made while the refresh token and the app key are present
\* and the stored expiration is None or 0 posts to oauth2/token for its
\* validity check before any target POST, whether or not an access token is
\* stored and whatever the calls before it did
C38_AbsentExpiryAlwaysRefreshes ==
    [][(CallStep /\ oauth2_refresh_token /\ app_key
          /\ ~ExpirationSet(oauth2_access_token_expiration)) =>
         /\ pc' = "token_wait"
         /\ refresh_caller' = "check"
         /\ tokenPosts' = 1
         /\ targetPosts' = 0
         /\ lastReq'.url = TokenUrl]_vars

\* the second call refreshes again: the first stored the token A1 and left
\* the expiration absent
C38_Witness ==
    /\ calls = 2
    /\ pc = "token_wait"
    /\ refresh_caller = "check"
    /\ tokenPosts = 1
    /\ callStart.access_token = "A1"
    /\ ~ExpirationSet(callStart.expiration)
    /\ oauth2_refresh_token
    /\ app_key

====
